---- MODULE Spec2Model ----
(***************************************************************************)
(* A model of the WIP coordination and checksum-verified upload protocol   *)
(* of impresso-make-cookbook: lib/common.py (s3_file_exists,               *)
(* upload_with_retries, ...) and lib/local_to_s3.py (main).                *)
(*                                                                         *)
(* Paths are sequences of tokens, so that the string operations of the     *)
(* code (concatenation of ".wip"/".tmp", startswith, endswith) are         *)
(* computed and not assumed.  The object store is a map from keys to       *)
(* objects; every store call of the code is one step, and its outcome      *)
(* (success, error, corrupted write) is chosen nondeterministically.       *)
(***************************************************************************)
EXTENDS Integers, Sequences, FiniteSets, TLC

VARIABLES
    store,      \* the object store: [Keys -> object]
    now,        \* wall clock, in hours
    localfs,    \* the local file system: [LocalPaths -> file]
    up,         \* the frame of the running upload_with_retries call
    ck,         \* the existence/WIP-check invocations: [Procs -> frame]
    run,        \* the frame of the upload run of main()
    tsp         \* the frame of the S3TimestampProcessor called on one file

vars == <<store, now, localfs, up, ck, run, tsp>>

----------------------------------------------------------------------------
(* Bounds of the model *)

\* the clock stops advancing here
MaxTime == 2

\* the time of an upload run
RunNow == 3

----------------------------------------------------------------------------
(* Paths *)

Scheme == "s3://"

D1 == <<Scheme, "b/k1">>
D2 == <<Scheme, "b/k2">>
D1log == <<Scheme, "b/k1", ".log.gz">>

\* a destination without the s3:// prefix
Malformed == <<"b/k9">>

\* the destinations the invocations of the model name
Dests == {D1, D2, D1log}

\* s3_path + ".wip", key + ".tmp"
WipPath(s3_path) == Append(s3_path, ".wip")

TmpPath(s3_path) == Append(s3_path, ".tmp")

\* backup_key = f"{key}.backup"
BackupPath(s3_path) == Append(s3_path, ".backup")

Keys ==
    Dests \cup {WipPath(d) : d \in Dests} \cup {TmpPath(d) : d \in Dests}
          \cup {BackupPath(d) : d \in Dests}

\* local files: a content file, its companion log, another content file
L1 == <<"a", ".jsonl.bz2">>
L1log == <<"a", ".jsonl.bz2", ".log.gz">>
L2 == <<"c", ".txt.gz">>

Lstamp == <<"a", ".stamp">>

LocalPaths == {L1, L1log, L2, Lstamp}

\* str.startswith on token sequences
StartsWith(path, prefix) ==
    /\ Len(prefix) <= Len(path)
    /\ SubSeq(path, 1, Len(prefix)) = prefix

\* the extensions a last token ends with, character-wise
TokenSuffixes(tok) ==
    CASE tok = ".jsonl.bz2" -> {".jsonl.bz2", ".bz2"}
      [] tok = ".txt.gz" -> {".txt.gz", ".gz"}
      [] tok = ".log.gz" -> {".log.gz", ".gz"}
      [] OTHER -> {tok}

\* str.endswith(ext)
EndsWith(path, ext) == Len(path) > 0 /\ ext \in TokenSuffixes(path[Len(path)])

\* local_path.endswith((".txt.gz", ".jsonl.bz2"))
IsWipContent(local_path) ==
    EndsWith(local_path, ".txt.gz") \/ EndsWith(local_path, ".jsonl.bz2")

\* parse_s3_path: raises ValueError unless the path starts with s3:// and
\* has a bucket and a key
ParseOk(s3_path) == Len(s3_path) >= 2 /\ s3_path[1] = Scheme

----------------------------------------------------------------------------
(* Objects and files *)

NoTs == -1

\* the bytes of data files: two real contents, the 14-byte empty bz2
\* stream and the empty file
RealBytes == {"A", "B"}

Bytes == RealBytes \cup {"E14", ""}

Size(b) == CASE b = "" -> 0 [] b = "E14" -> 14 [] OTHER -> 5

DataBody(b) == <<"bytes", b>>

\* json.dumps(wip_info): the owner stands for hostname, ip, user and pid
WipBody(owner) == <<"wip_info", owner>>

NoObj == [present |-> FALSE, body |-> DataBody(""), ts |-> NoTs, mtime |-> 0]

Obj(body, ts, mtime) == [present |-> TRUE, body |-> body, ts |-> ts, mtime |-> mtime]

NoFile == [exists |-> FALSE, bytes |-> "", mtime |-> 0]

File(b, mtime) == [exists |-> TRUE, bytes |-> b, mtime |-> mtime]

\* hashlib.md5 over the streamed bytes: collision-free on the model's bodies
Md5(body) == <<"md5", body[2]>>

----------------------------------------------------------------------------
(* The store primitives.  Every call either succeeds or raises; a write    *)
(* may also store bytes other than the ones sent.                          *)

Put(st, key, obj) == [st EXCEPT ![key] = obj]

Delete(st, key) == [st EXCEPT ![key] = NoObj]

\* s3_client.head_object / get_object on a key: found or 404
Found(st, key) == st[key].present

\* the bytes a write can leave behind instead of the ones sent
Corrupted(b) == RealBytes \ {b}

----------------------------------------------------------------------------
(* common.py: upload_with_retries *)

max_retries == 5

UpIdle ==
    [pc |-> "idle", local_file_path |-> <<>>, s3_path |-> <<>>, attempt |-> 0,
     local_md5 |-> Md5(DataBody("")), s3_md5 |-> Md5(DataBody("")),
     s3_md5_overwritten |-> Md5(DataBody("")), pending |-> "next",
     ret |-> "none", copied |-> FALSE, mismatch |-> FALSE]

\* the frame at the call: upload_with_retries(s3_client, local, s3_path)
UpCallFrame(local_file_path, s3_path) ==
    [UpIdle EXCEPT !.pc = "start", !.local_file_path = local_file_path,
                   !.s3_path = s3_path]

\* if local_md5 == s3_md5 (the temporary object)
TmpVerifiedAlways(local_md5, s3_md5) == TRUE

TmpVerified(local_md5, s3_md5) == local_md5 = s3_md5

\* if local_md5 == s3_md5_overwritten (the final object)
FinalVerifiedAlways(local_md5, s3_md5_overwritten) == TRUE

FinalVerified(local_md5, s3_md5_overwritten) == local_md5 = s3_md5_overwritten

\* the except clause of the attempt: log, sleep, then the finally clause
UpExcept(frame) == [frame EXCEPT !.pc = "finally", !.pending = "next"]

\* for attempt in range(max_retries): the next attempt assigns s3_md5 and
\* s3_md5_overwritten before it reads them
UpNextAttempt(frame) ==
    [frame EXCEPT !.pc = "put", !.attempt = @ + 1, !.pending = "next",
                  !.copied = FALSE,
                  !.s3_md5 = UpIdle.s3_md5,
                  !.s3_md5_overwritten = UpIdle.s3_md5_overwritten]

\* parse_s3_path, tmp_key, local_md5 = calculate_md5(local_file_path);
\* both raise out of the call, before the loop.  Each ...Steps operator is
\* the set of <<frame, store>> one step of the call can lead to.
UwrStartSteps(frame, st, fs) ==
    IF ~ParseOk(frame.s3_path) \/ ~fs[frame.local_file_path].exists
    THEN {<<[frame EXCEPT !.pc = "done", !.ret = "raised"], st>>}
    ELSE {<<[frame EXCEPT
               !.pc = IF max_retries > 0 THEN "put" ELSE "done",
               !.ret = IF max_retries > 0 THEN "none" ELSE "false",
               !.local_md5 = Md5(DataBody(fs[frame.local_file_path].bytes))], st>>}

\* s3_client.upload_file(local_file_path, bucket, tmp_key)
UwrPutSteps(frame, st, fs, t) ==
    LET sent == fs[frame.local_file_path].bytes
        tmp_key == TmpPath(frame.s3_path)
    IN {<<[frame EXCEPT !.pc = "get_tmp"], Put(st, tmp_key, Obj(DataBody(b), NoTs, t))>> :
            b \in {sent} \cup Corrupted(sent)}
       \cup {<<UpExcept(frame), st>>}

\* s3_md5 = calculate_md5(tmp); if local_md5 == s3_md5 ... else sleep
UwrGetTmpSteps(frame, st) ==
    LET tmp_key == TmpPath(frame.s3_path) IN
    {<<UpExcept(frame), st>>}
    \cup IF Found(st, tmp_key)
         THEN LET s3_md5 == Md5(st[tmp_key].body) IN
              {<<[frame EXCEPT
                    !.s3_md5 = s3_md5,
                    !.pc = IF TmpVerified(frame.local_md5, s3_md5)
                           THEN "copy" ELSE "finally",
                    !.pending = "next"], st>>}
         ELSE {}

\* s3_client.copy_object(tmp_key -> key, MetadataDirective="REPLACE")
UwrCopySteps(frame, st, t) ==
    LET src == st[TmpPath(frame.s3_path)] IN
    {<<UpExcept(frame), st>>}
    \cup IF src.present
         THEN {<<[frame EXCEPT !.pc = "get_final", !.copied = TRUE],
                 Put(st, frame.s3_path, Obj(DataBody(b), NoTs, t))>> :
                    b \in {src.body[2]} \cup Corrupted(src.body[2])}
         ELSE {}

\* s3_md5_overwritten = calculate_md5(final); equal: return True (through
\* the finally clause); else raise ValueError, which the except clause of
\* the same try statement catches
UwrGetFinalSteps(frame, st) ==
    {<<UpExcept(frame), st>>}
    \cup IF Found(st, frame.s3_path)
         THEN LET s3_md5_overwritten == Md5(st[frame.s3_path].body) IN
              IF FinalVerified(frame.local_md5, s3_md5_overwritten)
              THEN {<<[frame EXCEPT !.s3_md5_overwritten = s3_md5_overwritten,
                           !.pc = "finally", !.pending = "return_true"], st>>}
              ELSE {<<[UpExcept(frame) EXCEPT
                           !.s3_md5_overwritten = s3_md5_overwritten,
                           !.mismatch = TRUE], st>>}
         ELSE {}

UwrFinallyStepsKeepTmp(frame, st) ==
    {<<[frame EXCEPT !.pc = "done", !.ret = "raised"], st>>,
     <<IF frame.pending = "return_true"
       THEN [frame EXCEPT !.pc = "done", !.ret = "true"]
       ELSE IF frame.attempt + 1 < max_retries
       THEN UpNextAttempt(frame)
       ELSE [frame EXCEPT !.pc = "done", !.ret = "false", !.attempt = @ + 1],
       IF frame.pending = "return_true" THEN Delete(st, TmpPath(frame.s3_path)) ELSE st>>}

\* finally: s3_client.delete_object(tmp_key); an error of the delete leaves
\* the call as an exception, whatever was pending
UwrFinallySteps(frame, st) ==
    {<<[frame EXCEPT !.pc = "done", !.ret = "raised"], st>>,
     <<IF frame.pending = "return_true"
       THEN [frame EXCEPT !.pc = "done", !.ret = "true"]
       ELSE IF frame.attempt + 1 < max_retries
       THEN UpNextAttempt(frame)
       ELSE [frame EXCEPT !.pc = "done", !.ret = "false", !.attempt = @ + 1],
       Delete(st, TmpPath(frame.s3_path))>>}

UwrSteps(frame, st, fs, t) ==
    CASE frame.pc = "start" -> UwrStartSteps(frame, st, fs)
      [] frame.pc = "put" -> UwrPutSteps(frame, st, fs, t)
      [] frame.pc = "get_tmp" -> UwrGetTmpSteps(frame, st)
      [] frame.pc = "copy" -> UwrCopySteps(frame, st, t)
      [] frame.pc = "get_final" -> UwrGetFinalSteps(frame, st)
      [] frame.pc = "finally" -> UwrFinallySteps(frame, st)
      [] OTHER -> {}

UwrStart ==
    /\ up.pc = "start"
    /\ \E n \in UwrStartSteps(up, store, localfs) : up' = n[1] /\ store' = n[2]
    /\ UNCHANGED <<now, localfs, ck, run, tsp>>

UwrPut ==
    /\ up.pc = "put"
    /\ \E n \in UwrPutSteps(up, store, localfs, now) : up' = n[1] /\ store' = n[2]
    /\ UNCHANGED <<now, localfs, ck, run, tsp>>

UwrGetTmp ==
    /\ up.pc = "get_tmp"
    /\ \E n \in UwrGetTmpSteps(up, store) : up' = n[1] /\ store' = n[2]
    /\ UNCHANGED <<now, localfs, ck, run, tsp>>

UwrCopy ==
    /\ up.pc = "copy"
    /\ \E n \in UwrCopySteps(up, store, now) : up' = n[1] /\ store' = n[2]
    /\ UNCHANGED <<now, localfs, ck, run, tsp>>

UwrGetFinal ==
    /\ up.pc = "get_final"
    /\ \E n \in UwrGetFinalSteps(up, store) : up' = n[1] /\ store' = n[2]
    /\ UNCHANGED <<now, localfs, ck, run, tsp>>

UwrFinally ==
    /\ up.pc = "finally"
    /\ \E n \in UwrFinallySteps(up, store) : up' = n[1] /\ store' = n[2]
    /\ UNCHANGED <<now, localfs, ck, run, tsp>>

(* The call as a whole, for its callers: every way the steps above can run *)
(* from the call to the return.  The call reads neither the object at the  *)
(* destination nor the one at the temporary key before it has written it,  *)
(* so its runs are computed once, on a store of these two keys.            *)

RECURSIVE UwrRuns(_, _, _, _)
UwrRuns(frontier, returned, fs, t) ==
    IF frontier = {} THEN returned
    ELSE LET next == UNION {UwrSteps(n[1], n[2], fs, t) : n \in frontier}
         IN UwrRuns({n \in next : n[1].pc # "done"},
                    returned \cup {n \in next : n[1].pc = "done"}, fs, t)

\* an object of the two-key store that the call has not written
Untouched == [present |-> FALSE, body |-> DataBody("untouched"), ts |-> NoTs, mtime |-> -1]

\* the times at which the model calls upload_with_retries
CallTimes == 0..(RunNow + 1)

UwrTable ==
    [exists \in BOOLEAN, b \in Bytes, t \in CallTimes |->
        {[ret |-> n[1].ret, mismatch |-> n[1].mismatch,
          final |-> n[2][D1], tmp |-> n[2][TmpPath(D1)]] :
            n \in UwrRuns({<<UpCallFrame(L1, D1),
                             [k \in {D1, TmpPath(D1)} |-> Untouched]>>}, {},
                          [l \in {L1} |-> [exists |-> exists, bytes |-> b, mtime |-> 0]],
                          t)}]

\* upload_with_retries(s3_client, local_file_path, s3_path): the returns of
\* the call, each with the store it leaves
UploadWithRetries(local_file_path, s3_path, st, fs, t) ==
    IF ~ParseOk(s3_path)
    THEN {[ret |-> "raised", mismatch |-> FALSE, store |-> st]}
    ELSE {[ret |-> r.ret, mismatch |-> r.mismatch,
           store |-> [st EXCEPT
                ![s3_path] = IF r.final = Untouched THEN @ ELSE r.final,
                ![TmpPath(s3_path)] = IF r.tmp = Untouched THEN @ ELSE r.tmp]] :
            r \in UwrTable[fs[local_file_path].exists, fs[local_file_path].bytes, t]}

----------------------------------------------------------------------------
(* local_to_s3.py: main(), the branch of --s3-file-exists (the existence   *)
(* and WIP check).  Each invocation is a process; its store calls          *)
(* interleave with those of the other invocations.                         *)

Procs == {"p1", "p2"}

\* the owner of the markers that were in the store before the model starts
Other == "other"

\* --wip-max-age, in hours
WipMaxAges == {1}

\* the file arguments (local_path s3_path ...) given with --create-wip
CkFileLists ==
    {<<>>, <<L1, D1>>, <<L1, D2>>, <<L1log, D1>>, <<L1, D1, L1log>>, <<L1, Malformed>>}

\* the frame of an invocation.  dest_seen, wip_at_start, wip_seen, issued,
\* raised, after and start_time record what happened; the code does not read
\* them.
CkIdle ==
    [pc |-> "idle", s3_file_exists |-> <<>>, wip |-> FALSE, create_wip |-> FALSE,
     wip_max_age |-> 0, files |-> <<>>, i |-> 0, exit |-> -1,
     dest_seen |-> "unseen", wip_at_start |-> "unseen", wip_seen |-> "unseen",
     issued |-> {}, raised |-> {}, after |-> {}, start_time |-> -1]

\* age_hours > args.wip_max_age
IsStaleOrEqual(age_hours, wip_max_age) == age_hours >= wip_max_age

IsStale(age_hours, wip_max_age) == age_hours > wip_max_age

\* what a marker is for an invocation that looks at it at time t
WipState(st, s3_path, t, wip_max_age) ==
    IF ~st[WipPath(s3_path)].present THEN "absent"
    ELSE IF t - st[WipPath(s3_path)].mtime > wip_max_age THEN "stale"
    ELSE "live"

\* file_pairs = [(args.files[i], args.files[i + 1]) for i in range(0, len, 2)];
\* an odd number of arguments raises IndexError
PairsOk(files) == Len(files) % 2 = 0

FilePairs(files) == [k \in 1..(Len(files) \div 2) |-> <<files[2 * k - 1], files[2 * k]>>]

CkExit(frame, code, t) == [frame EXCEPT !.pc = "exit", !.exit = code]

\* if args.create_wip and args.files
CreatesWipAlways(create_wip, files) == create_wip

CreatesWip(create_wip, files) == create_wip /\ files # <<>>

CkAfterWipExit1(frame, t) == CkExit(frame, 1, t)

\* after the WIP check: create the markers, or exit 1
CkAfterWip(frame, t) ==
    IF CreatesWip(frame.create_wip, frame.files)
    THEN IF PairsOk(frame.files)
         THEN [frame EXCEPT !.pc = "put_wip", !.i = 1]
         ELSE CkExit(frame, 1, t)
    ELSE CkExit(frame, 1, t)

\* if exists: sys.exit(0); if args.wip: the WIP check
CkAfterHeadDestWipFirst(frame, exists, t) ==
    IF frame.wip THEN [frame EXCEPT !.pc = "head_wip"]
    ELSE IF exists THEN CkExit(frame, 0, t)
    ELSE CkAfterWip(frame, t)

CkAfterHeadDestExit1(frame, exists, t) ==
    IF exists THEN CkExit(frame, 1, t)
    ELSE IF frame.wip THEN [frame EXCEPT !.pc = "head_wip"]
    ELSE CkAfterWip(frame, t)

CkAfterHeadDest(frame, exists, t) ==
    IF exists THEN CkExit(frame, 0, t)
    ELSE IF frame.wip THEN [frame EXCEPT !.pc = "head_wip"]
    ELSE CkAfterWip(frame, t)

\* args = parser.parse_args(); if args.create_wip: args.wip = True;
\* if args.s3_file_exists: ...
CkStart(p) ==
    /\ ck[p].pc = "idle"
    /\ \E wip \in BOOLEAN, create_wip \in BOOLEAN, age \in WipMaxAges,
          files \in CkFileLists :
         /\ ~create_wip => files = <<>>
         /\ ck' = [ck EXCEPT ![p] =
                [CkIdle EXCEPT !.pc = "head_dest", !.s3_file_exists = D1,
                     !.wip = wip \/ create_wip, !.create_wip = create_wip,
                     !.wip_max_age = age, !.files = files,
                     !.after = {q \in Procs : ck[q].pc = "exit"},
                     !.start_time = now]]
    /\ UNCHANGED <<store, now, localfs, up, run, tsp>>

\* exists = s3_file_exists(s3_client, args.s3_file_exists): head_object;
\* 404 is False, any other error is raised and ends in the outer except
CkHeadDest(p) ==
    /\ ck[p].pc = "head_dest"
    /\ LET f == [ck[p] EXCEPT
                   !.dest_seen = IF Found(store, ck[p].s3_file_exists)
                                 THEN "present" ELSE "absent",
                   !.wip_at_start = WipState(store, ck[p].s3_file_exists, now,
                                             ck[p].wip_max_age)]
       IN \E outcome \in {"ok", "error"} :
            ck' = [ck EXCEPT ![p] =
               IF outcome = "error" \/ ~ParseOk(f.s3_file_exists)
               THEN CkExit([f EXCEPT !.raised = @ \cup {"head_dest"}], 1, now)
               ELSE CkAfterHeadDest(f, Found(store, f.s3_file_exists), now)]
    /\ UNCHANGED <<store, now, localfs, up, run, tsp>>

CkAfterHeadWipErrorHeld(frame, t) == CkExit(frame, 2, t)

\* except Exception as e: a warning is logged and the check goes on as
\* after a 404
CkAfterHeadWipError(frame, t) == CkAfterWip(frame, t)

\* response = s3_client.head_object(wip): 404 and every other error leave
\* the try statement through its except clauses and the check goes on
CkHeadWip(p) ==
    /\ ck[p].pc = "head_wip"
    /\ LET wip_path == WipPath(ck[p].s3_file_exists)
           f == [ck[p] EXCEPT
                   !.wip_seen = WipState(store, ck[p].s3_file_exists, now,
                                         ck[p].wip_max_age)]
       IN \E outcome \in {"ok", "error"} :
            ck' = [ck EXCEPT ![p] =
               IF outcome = "error"
               THEN CkAfterHeadWipError([f EXCEPT !.raised = @ \cup {"head_wip"}], now)
               ELSE IF ~Found(store, wip_path)
               THEN CkAfterWip(f, now)
               ELSE IF IsStale(now - store[wip_path].mtime, f.wip_max_age)
               THEN [f EXCEPT !.pc = "delete_stale"]
               ELSE [f EXCEPT !.pc = "get_wip"]]
    /\ UNCHANGED <<store, now, localfs, up, run, tsp>>

\* s3_client.delete_object(wip): an error is caught by except Exception
CkDeleteStale(p) ==
    /\ ck[p].pc = "delete_stale"
    /\ LET wip_path == WipPath(ck[p].s3_file_exists) IN
       \E outcome \in {"ok", "error"} :
         /\ store' = IF outcome = "ok" THEN Delete(store, wip_path) ELSE store
         /\ ck' = [ck EXCEPT ![p] =
              CkAfterWip([ck[p] EXCEPT
                   !.issued = @ \cup {<<"DELETE", wip_path, outcome>>},
                   !.raised = IF outcome = "ok" THEN @ ELSE @ \cup {"delete"}],
                 now)]
    /\ UNCHANGED <<now, localfs, up, run, tsp>>

\* wip_obj = s3_client.get_object(wip) in its own try; then sys.exit(2)
CkGetWip(p) ==
    /\ ck[p].pc = "get_wip"
    /\ \E outcome \in {"ok", "error"} :
         ck' = [ck EXCEPT ![p] =
            CkExit([ck[p] EXCEPT
                      !.raised = IF outcome = "ok" /\ Found(store, WipPath(ck[p].s3_file_exists))
                                 THEN @ ELSE @ \cup {"get"}],
                   2, now)]
    /\ UNCHANGED <<store, now, localfs, up, run, tsp>>

\* for local_path, s3_path in file_pairs: if local_path.endswith(...):
\* parse_s3_path(wip_path); try: put_object except: log.error; after the
\* loop sys.exit(0)
CkPutWip(p) ==
    /\ ck[p].pc = "put_wip"
    /\ LET f == ck[p]
           file_pairs == FilePairs(f.files)
       IN IF f.i > Len(file_pairs)
          THEN /\ ck' = [ck EXCEPT ![p] = CkExit(f, 0, now)]
               /\ store' = store
          ELSE LET local_path == file_pairs[f.i][1]
                   s3_path == file_pairs[f.i][2]
                   wip_path == WipPath(s3_path)
               IN IF ~IsWipContent(local_path)
                  THEN /\ ck' = [ck EXCEPT ![p] = [f EXCEPT !.i = @ + 1]]
                       /\ store' = store
                  ELSE IF ~ParseOk(wip_path)
                  THEN /\ ck' = [ck EXCEPT ![p] = CkExit(f, 1, now)]
                       /\ store' = store
                  ELSE \E outcome \in {"ok", "error"} :
                       /\ store' = IF outcome = "ok"
                                   THEN Put(store, wip_path, Obj(WipBody(p), NoTs, now))
                                   ELSE store
                       /\ ck' = [ck EXCEPT ![p] = [f EXCEPT
                            !.i = @ + 1,
                            !.issued = @ \cup {<<"PUT", wip_path, outcome>>},
                            !.raised = IF outcome = "ok" THEN @ ELSE @ \cup {"put"}]]
    /\ UNCHANGED <<now, localfs, up, run, tsp>>

\* time passes between the store calls of the invocations
Tick ==
    /\ now < MaxTime
    /\ now' = now + 1
    /\ UNCHANGED <<store, localfs, up, ck, run, tsp>>

RunOff == [pc |-> "off"]

\* no S3TimestampProcessor has been called
TspIdle == [pc |-> "idle", calls |-> 0]

EmptyStore == [k \in Keys |-> NoObj]

NoFiles == [l \in LocalPaths |-> NoFile]

\* the store an invocation can find: the destination published or not, a
\* marker of an earlier invocation at its .wip key or not
InitCheck ==
    /\ now = 0
    /\ \E dest \in {NoObj, Obj(DataBody("A"), NoTs, 0)},
          marker \in {NoObj, Obj(WipBody(Other), NoTs, 0)} :
         store = [EmptyStore EXCEPT ![D1] = dest, ![WipPath(D1)] = marker]
    /\ localfs = NoFiles
    /\ up = UpIdle
    /\ tsp = TspIdle
    /\ ck = [p \in Procs |-> CkIdle]
    /\ run = RunOff

NextCheck ==
    \/ \E p \in Procs : CkStart(p)
    \/ \E p \in Procs : CkHeadDest(p)
    \/ \E p \in Procs : CkHeadWip(p)
    \/ \E p \in Procs : CkDeleteStale(p)
    \/ \E p \in Procs : CkGetWip(p)
    \/ \E p \in Procs : CkPutWip(p)
    \/ Tick

SpecCheck == InitCheck /\ [][NextCheck]_vars

----------------------------------------------------------------------------
(* upload_with_retries on its own: one call, on any local file and any     *)
(* state of the destination                                                *)

InitUp ==
    /\ now = 0
    /\ \E dest \in {NoObj} \cup {Obj(DataBody(b), NoTs, 0) : b \in RealBytes},
          file \in {NoFile} \cup {File(b, 0) : b \in RealBytes} :
         /\ store = [EmptyStore EXCEPT ![D1] = dest]
         /\ localfs = [NoFiles EXCEPT ![L1] = file]
    /\ up = UpIdle
    /\ tsp = TspIdle
    /\ ck = [p \in Procs |-> CkIdle]
    /\ run = RunOff

UpCall ==
    /\ up.pc = "idle"
    /\ up' = UpCallFrame(L1, D1)
    /\ UNCHANGED <<store, now, localfs, ck, run, tsp>>

NextUp == UpCall \/ UwrStart \/ UwrPut \/ UwrGetTmp \/ UwrCopy \/ UwrGetFinal \/ UwrFinally

SpecUp == InitUp /\ [][NextUp]_vars

----------------------------------------------------------------------------
(* local_to_s3.py: main(), the upload run (no --s3-file-exists).  One      *)
(* invocation, sequential; its store calls are steps.                      *)

\* the owner written into the markers of the run (the same host and user
\* as the check that precedes the run in the WIP workflow)
Me == "run"

\* args.files: none, an odd number, one pair, a content file with its log
RunFileLists ==
    {<<>>, <<L1>>, <<L1, D1>>, <<L1, D1, L1log, D1log>>, <<L2, D2>>, <<L1, Malformed>>,
     <<L2, D2, Lstamp, D1>>}

\* --forbid-extensions, default
forbid_extensions == {".stamp", ".last_synced"}

RunOutcomes ==
    {"Pending", "Uploaded", "SkipAlreadyExists", "SkipStampFile", "SkipUpToDate",
     "SkipWithContent", "Failed", "Raised"}

\* the command lines of the run; --ts-key is read only under --set-timestamp
\* and for a .jsonl.bz2 file, and utc_offset, the host's time zone in the
\* unit of the clock, only where a file modification date is written; the
\* runs that stamp are taken without the marker options, or with both of
\* them on the pair of the text file.
RunArgs ==
    {a \in [files : RunFileLists, force_overwrite : BOOLEAN,
            upload_if_newer : BOOLEAN, keep_timestamp_only : BOOLEAN,
            create_wip : BOOLEAN, remove_wip : BOOLEAN,
            set_timestamp : BOOLEAN, ts_key : {"ts", "__file__"},
            utc_offset : {0, 1}] :
        /\ ~a.set_timestamp => (a.ts_key = "ts" /\ a.utc_offset = 0)
        /\ a.set_timestamp =>
               \/ ~a.create_wip /\ ~a.remove_wip
               \/ a.files = <<L2, D2>> /\ a.create_wip /\ a.remove_wip
        /\ a.files = <<L1, D1>> /\ a.ts_key = "ts" => a.utc_offset = 0
        /\ a.files = <<L2, D2>> => a.ts_key = "ts"}

\* the frame of the run.  outcome, issued, store_at_start, run_no,
\* first_outcome, first_store and files_at_start record what happened; the
\* code does not read them.
RunFrame(args) ==
    [pc |-> "start", files |-> args.files,
     force_overwrite |-> args.force_overwrite,
     upload_if_newer |-> args.upload_if_newer,
     keep_timestamp_only |-> args.keep_timestamp_only,
     create_wip |-> args.create_wip, remove_wip |-> args.remove_wip,
     set_timestamp |-> args.set_timestamp, ts_key |-> args.ts_key,
     utc_offset |-> args.utc_offset,
     i |-> 0, pair_idx |-> 1, uploaded_files |-> <<>>,
     uploaded_content_files |-> {}, exit |-> -1,
     outcome |-> [k \in 1..(Len(args.files) \div 2) |-> "Pending"],
     issued |-> {}, store_at_start |-> store, run_no |-> 1,
     first_outcome |-> <<>>, first_store |-> store, files_at_start |-> localfs,
     violations |-> {}]

\* the command line of a frame
ArgsOf(frame) ==
    [files |-> frame.files, force_overwrite |-> frame.force_overwrite,
     upload_if_newer |-> frame.upload_if_newer,
     keep_timestamp_only |-> frame.keep_timestamp_only,
     create_wip |-> frame.create_wip, remove_wip |-> frame.remove_wip,
     set_timestamp |-> frame.set_timestamp, ts_key |-> frame.ts_key,
     utc_offset |-> frame.utc_offset]

RunExit(frame, code) == [frame EXCEPT !.pc = "exit", !.exit = code]

\* is_content_file: the next pair is this file's log
IsContentFile(file_pairs, pair_idx) ==
    /\ pair_idx + 1 <= Len(file_pairs)
    /\ StartsWith(file_pairs[pair_idx + 1][1], file_pairs[pair_idx][1])
    /\ EndsWith(file_pairs[pair_idx + 1][1], ".log.gz")

\* is_log_file
IsLogFile(local_path) == EndsWith(local_path, ".log.gz")

\* corresponding_content_file is set (to the previous local path)
HasCorrespondingContent(file_pairs, pair_idx) ==
    /\ IsLogFile(file_pairs[pair_idx][1])
    /\ pair_idx > 1
    /\ StartsWith(file_pairs[pair_idx][1], file_pairs[pair_idx - 1][1])
    /\ ~EndsWith(file_pairs[pair_idx - 1][1], ".log.gz")

ForcedLogNever(file_pairs, pair_idx, uploaded_content_files) == FALSE

\* is_log_file and corresponding_content_file in uploaded_content_files
ForcedLog(file_pairs, pair_idx, uploaded_content_files) ==
    /\ HasCorrespondingContent(file_pairs, pair_idx)
    /\ file_pairs[pair_idx - 1][1] \in uploaded_content_files

IsStampZeroOnly(local_path, local_size) == local_size = 0

\* is_stamp = local_size == 0 or (local_path.endswith(".bz2") and local_size == 14)
IsStamp(local_path, local_size) ==
    local_size = 0 \/ (EndsWith(local_path, ".bz2") /\ local_size = 14)

\* local_mtime > s3_timestamp
IsNewerOrEqual(local_mtime, s3_timestamp) == local_mtime >= s3_timestamp

IsNewer(local_mtime, s3_timestamp) == local_mtime > s3_timestamp

\* with the destination present and --upload-if-newer: stamp file, metadata
\* HEAD, comparison of the local mtime with the metadata timestamp
DecideIfNewer(local_path, file, head_ok, s3_timestamp) ==
    IF IsStamp(local_path, Size(file.bytes)) THEN "SkipStampFile"
    ELSE IF ~head_ok THEN "Upload"
    ELSE IF s3_timestamp # NoTs
    THEN IF IsNewer(file.mtime, s3_timestamp) THEN "Upload" ELSE "SkipUpToDate"
    ELSE "Upload"

\* the destination exists and --force-overwrite is not set
DecideExistingAlwaysUpload(upload_if_newer, local_path, file, head_ok, s3_timestamp) ==
    "Upload"

DecideExisting(upload_if_newer, local_path, file, head_ok, s3_timestamp) ==
    IF upload_if_newer
    THEN DecideIfNewer(local_path, file, head_ok, s3_timestamp)
    ELSE "SkipAlreadyExists"

DecideForceIgnored(forced_log, force_overwrite, upload_if_newer, exists, local_path, file, head_ok, s3_timestamp) ==
    IF forced_log THEN "Upload"
    ELSE IF exists THEN "SkipAlreadyExists"
    ELSE "Upload"

\* skip_this_pair, with the reason: the decision for one element
Decide(forced_log, force_overwrite, upload_if_newer, exists, local_path, file, head_ok, s3_timestamp) ==
    IF forced_log THEN "Upload"
    ELSE IF force_overwrite THEN "Upload"
    ELSE IF exists
    THEN DecideExisting(upload_if_newer, local_path, file, head_ok, s3_timestamp)
    ELSE IF upload_if_newer /\ IsStamp(local_path, Size(file.bytes))
    THEN "SkipStampFile"
    ELSE "Upload"

RunSkipTracked(frame, file_pairs, why) ==
    [frame EXCEPT !.pair_idx = @ + 1, !.outcome[frame.pair_idx] = why,
                  !.uploaded_files = Append(@, file_pairs[frame.pair_idx])]

RunSkipStays(frame, file_pairs, why) ==
    [frame EXCEPT !.outcome[frame.pair_idx] = why]

RunSkipOne(frame, file_pairs, why) ==
    [frame EXCEPT !.pair_idx = @ + 1, !.outcome[frame.pair_idx] = why]

\* a skipped or failed content file takes its log with it: pair_idx += 2
RunSkip(frame, file_pairs, why) ==
    IF IsContentFile(file_pairs, frame.pair_idx)
    THEN [frame EXCEPT !.pair_idx = @ + 2,
                       !.outcome[frame.pair_idx] = why,
                       !.outcome[frame.pair_idx + 1] = "SkipWithContent"]
    ELSE [frame EXCEPT !.pair_idx = @ + 1, !.outcome[frame.pair_idx] = why]

\* after the WIP creation, and after each element: the next element, or the
\* end of the loop
RunLoop(frame) ==
    IF frame.pair_idx <= Len(frame.files) \div 2
    THEN [frame EXCEPT !.pc = "pair"]
    ELSE [frame EXCEPT !.pc = "remove_wip", !.i = 1]

\* if not args.files: exit 1; if len(args.files) % 2: exit 1;
\* get_s3_client(), whose failure is the outer except: exit 1
RunBegin(frame, client_ok) ==
    IF frame.files = <<>> \/ ~PairsOk(frame.files) \/ ~client_ok
    THEN RunExit(frame, 1)
    ELSE IF frame.create_wip THEN [frame EXCEPT !.pc = "create_wip", !.i = 1]
    ELSE RunLoop(frame)

\* parse_args and the start of the upload branch of main()
RunStartWith(command_lines) ==
    /\ run.pc = "off"
    /\ \E args \in command_lines, client_ok \in BOOLEAN :
         run' = RunBegin(RunFrame(args), client_ok)
    /\ UNCHANGED <<store, now, localfs, up, ck, tsp>>

RunStart == RunStartWith(RunArgs)

\* the command lines that are run twice: those without the marker options
TwiceArgs == {a \in RunArgs : ~a.create_wip /\ ~a.remove_wip}

RunStartTwice == RunStartWith(TwiceArgs)

\* the same command line once more, after the first run has ended
RunAgain ==
    /\ run.pc = "exit"
    /\ run.run_no = 1
    /\ \E client_ok \in BOOLEAN, later \in {0, 1} :
         /\ now' = now + later
         /\ run' = RunBegin([RunFrame(ArgsOf(run)) EXCEPT
                                !.run_no = 2, !.first_outcome = run.outcome,
                                !.store_at_start = run.store_at_start], client_ok)
    /\ UNCHANGED <<store, localfs, up, ck, tsp>>

\* if args.create_wip: for each pair with a content file: put_object(wip),
\* whatever the store holds at that key; a malformed destination raises
RunCreateWip ==
    /\ run.pc = "create_wip"
    /\ LET file_pairs == FilePairs(run.files) IN
       IF run.i > Len(file_pairs)
       THEN /\ run' = RunLoop(run)
            /\ store' = store
       ELSE LET local_path == file_pairs[run.i][1]
                wip_path == WipPath(file_pairs[run.i][2])
            IN IF ~IsWipContent(local_path)
               THEN /\ run' = [run EXCEPT !.i = @ + 1]
                    /\ store' = store
               ELSE IF ~ParseOk(wip_path)
               THEN /\ run' = RunExit(run, 1)
                    /\ store' = store
               ELSE \E outcome \in {"ok", "error"} :
                    /\ store' = IF outcome = "ok"
                                THEN Put(store, wip_path, Obj(WipBody(Me), NoTs, now))
                                ELSE store
                    /\ run' = [run EXCEPT !.i = @ + 1,
                                 !.issued = @ \cup {<<"PUT", wip_path, outcome>>}]
    /\ UNCHANGED <<now, localfs, up, ck, tsp>>

FatalLocalNever(local_path, file) == FALSE

\* the fatal checks made for every element: a forbidden extension, the
\* local file missing, the local file of 0 bytes
FatalLocal(local_path, file) ==
    \/ \E ext \in forbid_extensions : EndsWith(local_path, ext)
    \/ ~file.exists
    \/ Size(file.bytes) = 0

\* one element of the loop up to the call of upload_with_retries: the fatal
\* checks, the existence check, the freshness check
RunPair ==
    /\ run.pc = "pair"
    /\ LET file_pairs == FilePairs(run.files)
           local_path == file_pairs[run.pair_idx][1]
           s3_path == file_pairs[run.pair_idx][2]
           file == localfs[local_path]
           forced_log == ForcedLog(file_pairs, run.pair_idx, run.uploaded_content_files)
       IN IF FatalLocal(local_path, file)
          THEN run' = RunExit(run, 1)
          ELSE IF ~forced_log /\ ~run.force_overwrite /\ ~ParseOk(s3_path)
          THEN run' = RunExit(run, 1)
          ELSE \E exists_outcome \in {"ok", "error"}, head_ok \in BOOLEAN :
               IF ~forced_log /\ ~run.force_overwrite /\ exists_outcome = "error"
               THEN run' = RunExit(run, 1)
               ELSE LET decision ==
                          Decide(forced_log, run.force_overwrite, run.upload_if_newer,
                                 ParseOk(s3_path) /\ Found(store, s3_path),
                                 local_path, file, head_ok,
                                 IF ParseOk(s3_path) THEN store[s3_path].ts ELSE NoTs)
                        heads ==
                          IF forced_log \/ run.force_overwrite THEN {}
                          ELSE {<<"HEAD", s3_path, "exists">>}
                               \cup IF /\ ParseOk(s3_path)
                                       /\ Found(store, s3_path)
                                       /\ run.upload_if_newer
                                       /\ ~IsStamp(local_path, Size(file.bytes))
                                    THEN {<<"HEAD", s3_path,
                                            IF head_ok THEN "metadata" ELSE "error">>}
                                    ELSE {}
                        checked == [run EXCEPT !.issued = @ \cup heads]
                    IN IF decision = "Upload"
                       THEN run' = [checked EXCEPT !.pc = "upload"]
                       ELSE run' = RunLoop(RunSkip(checked, file_pairs, decision))
    /\ UNCHANGED <<store, now, localfs, up, ck, tsp>>

KeepTimestampOnlyPreserved(file, t) == File("", file.mtime)

\* keep_timestamp_only(input_path): open(input_path, "w") truncates the
\* file; timestamp is None, so os.utime sets the modification time to
\* datetime.now(timezone.utc)
KeepTimestampOnly(file, t) == File("", t)

\* uploaded = upload_with_retries(s3_client, local_path, s3_path) and its
\* return: failed, raised (the outer except: exit 1), or uploaded, then
\* keep_timestamp_only(local_path), which truncates the file and sets its
\* modification time to the current time, or raises (exit 1) before or
\* after the truncation
RunUpload ==
    /\ run.pc = "upload"
    /\ LET file_pairs == FilePairs(run.files)
           local_path == file_pairs[run.pair_idx][1]
           s3_path == file_pairs[run.pair_idx][2]
       IN \E r \in UploadWithRetries(local_path, s3_path, store, localfs, now) :
          LET met == [run EXCEPT !.violations =
                         IF r.mismatch THEN @ \cup {"digest"} ELSE @]
          IN
            /\ store' = r.store
            /\ CASE r.ret = "raised" ->
                      /\ run' = RunExit([met EXCEPT !.outcome[run.pair_idx] = "Raised"], 1)
                      /\ localfs' = localfs
                 [] r.ret = "false" ->
                      /\ run' = RunLoop(RunSkip(met, file_pairs, "Failed"))
                      /\ localfs' = localfs
                 [] OTHER ->
                      LET tracked == [met EXCEPT
                             !.uploaded_files = Append(@, <<local_path, s3_path>>),
                             !.uploaded_content_files =
                                 IF IsLogFile(local_path) THEN @ ELSE @ \cup {local_path},
                             !.outcome[run.pair_idx] = "Uploaded"]
                      IN IF ~run.keep_timestamp_only
                         THEN /\ run' = RunLoop([tracked EXCEPT !.pair_idx = @ + 1])
                              /\ localfs' = localfs
                         ELSE \E truncated \in BOOLEAN :
                              IF truncated
                              THEN /\ run' = RunLoop([tracked EXCEPT !.pair_idx = @ + 1])
                                   /\ localfs' = [localfs EXCEPT ![local_path] =
                                                    KeepTimestampOnly(@, now)]
                              ELSE /\ run' = RunExit(tracked, 1)
                                   /\ localfs' \in {localfs,
                                                    [localfs EXCEPT ![local_path] =
                                                        File("", now)]}
    /\ UNCHANGED <<now, up, ck, tsp>>

\* if args.remove_wip: for local_path, s3_path in uploaded_files: ...
RemovesWipTxtOnly(remove_wip, local_path) ==
    remove_wip /\ EndsWith(local_path, ".txt.gz")

RemovesWipNever(remove_wip, local_path) == FALSE

RemovesWip(remove_wip, local_path) == remove_wip /\ IsWipContent(local_path)

\* after the cleanup: if args.set_timestamp: if uploaded_files: ...
RunAfterRemoveWip(frame) ==
    IF frame.set_timestamp /\ frame.uploaded_files # <<>>
    THEN [frame EXCEPT !.pc = "set_timestamp", !.i = 1]
    ELSE RunExit(frame, 0)

\* the cleanup of the markers of the uploaded files
RunRemoveWip ==
    /\ run.pc = "remove_wip"
    /\ IF run.i > Len(run.uploaded_files)
       THEN /\ run' = RunAfterRemoveWip(run)
            /\ store' = store
       ELSE LET local_path == run.uploaded_files[run.i][1]
                wip_path == WipPath(run.uploaded_files[run.i][2])
            IN IF ~RemovesWip(run.remove_wip, local_path)
               THEN /\ run' = [run EXCEPT !.i = @ + 1]
                    /\ store' = store
               ELSE \E outcome \in {"ok", "error"} :
                    /\ store' = IF outcome = "ok" THEN Delete(store, wip_path) ELSE store
                    /\ run' = [run EXCEPT !.i = @ + 1,
                                 !.issued = @ \cup {<<"DELETE", wip_path, outcome>>}]
    /\ UNCHANGED <<now, localfs, up, ck, tsp>>

\* get_last_timestamp(tmp.name, ts_key, all_lines=False) on the downloaded
\* bytes: the timestamp of the first record that has one, else the
\* modification time of the temporary file
RecordTs(b) == CASE b = "A" -> 1 [] b = "B" -> 2 [] OTHER -> NoTs

LatestTs(b, t) == IF RecordTs(b) # NoTs THEN RecordTs(b) ELSE t

\* no output_s3_uri given
NoOutput == <<>>

\* S3TimestampProcessor.update_metadata_if_needed(s3_uri, metadata_key,
\* ts_key, all_lines, output_s3_uri, force): what the call can do to the
\* store and how it ends: "done", "exists" (ValueError "Metadata key already
\* exists.") or "raised" (any other exception), with the ETag comparison
\* that failed, if one did.  HEAD; the test of the metadata key; download;
\* backup COPY; ETag of the original against the backup; COPY onto the
\* destination with the new metadata; ETag of the original key against the
\* backup; DELETE of the backup (its failure is a warning).
SkipsExistingNever(metadata_present, force) == FALSE

EtagsMatchAlways(a, b) == TRUE

\* original_head.get("ETag") != backup_head.get("ETag"), and
\* updated_head.get("ETag") == backup_head.get("ETag")
EtagsMatch(a, b) == Md5(a.body) = Md5(b.body)

\* if original_head.get("ETag") != backup_head.get("ETag"): raise
BackupVerifiedAlways(original_head, backup_head) == TRUE

BackupVerified(original_head, backup_head) == EtagsMatch(original_head, backup_head)

\* if updated_head.get("ETag") == backup_head.get("ETag"): delete the backup
UpdatedVerifiedAlways(updated_head, backup_head) == TRUE

UpdatedVerified(updated_head, backup_head) == EtagsMatch(updated_head, backup_head)

SkipsExisting(metadata_present, force) == metadata_present /\ ~force

UpdateMetadataIfNeeded(s3_uri, output_s3_uri, force, st, t) ==
    LET backup_key == BackupPath(s3_uri)
        original == st[s3_uri]
        destination == IF output_s3_uri # NoOutput THEN output_s3_uri ELSE s3_uri
        Ended(result, violation, after) ==
            [result |-> result, violation |-> violation, store |-> after]
    IN IF ~original.present THEN {Ended("raised", "none", st)}
       ELSE IF SkipsExisting(original.ts # NoTs, force)
       THEN {Ended("raised", "none", st), Ended("exists", "none", st)}
       ELSE {Ended("raised", "none", st)}
            \cup UNION {
              LET with_backup == Put(st, backup_key,
                                     Obj(DataBody(b1), original.ts, t))
              IN {Ended("raised", "none", with_backup)}
                 \cup
                 IF ~BackupVerified(with_backup[s3_uri], with_backup[backup_key])
                 THEN {Ended("raised", "backup", with_backup)}
                 ELSE UNION {
                        LET updated == Put(with_backup, destination,
                                           Obj(DataBody(b2),
                                               LatestTs(original.body[2], t), t))
                        IN {Ended("raised", "none", updated)}
                           \cup
                           IF ~UpdatedVerified(updated[s3_uri], updated[backup_key])
                           THEN {Ended("raised", "updated", updated)}
                           ELSE {Ended("done", "none", updated),
                                 Ended("done", "none", Delete(updated, backup_key))} :
                        b2 \in {original.body[2]} \cup Corrupted(original.body[2])} :
              b1 \in {original.body[2]} \cup Corrupted(original.body[2])}

\* datetime.fromtimestamp(file_mtime).strftime("%Y-%m-%dT%H:%M:%SZ"): the
\* local time of the host, written with the suffix of UTC
FileTimestamp(file_mtime, utc_offset) == file_mtime + utc_offset

\* the branch of the file modification date: HEAD (its failure ignored),
\* COPY onto itself with the metadata key set; the stores it can leave
SetFileTimestamp(local_path, s3_path, st, fs, t, utc_offset) ==
    LET file_mtime == IF fs[local_path].exists THEN fs[local_path].mtime ELSE t
        file_timestamp == FileTimestamp(file_mtime, utc_offset)
    IN {st}
       \cup IF ~st[s3_path].present THEN {}
            ELSE {Put(st, s3_path, Obj(DataBody(b), file_timestamp, t)) :
                    b \in {st[s3_path].body[2]} \cup Corrupted(st[s3_path].body[2])}

\* local_path.endswith((".jsonl.bz2", ".json")) and args.ts_key != "__file__"
UsesRecordTimestamp(local_path, ts_key) ==
    /\ EndsWith(local_path, ".jsonl.bz2") \/ EndsWith(local_path, ".json")
    /\ ts_key # "__file__"

\* the stamping of one uploaded file; every failure is logged and the loop
\* goes on; after the last file the run ends with exit 0
RunSetTimestamp ==
    /\ run.pc = "set_timestamp"
    /\ IF run.i > Len(run.uploaded_files)
       THEN /\ run' = RunExit(run, 0)
            /\ store' = store
       ELSE LET local_path == run.uploaded_files[run.i][1]
                s3_path == run.uploaded_files[run.i][2]
            IN IF UsesRecordTimestamp(local_path, run.ts_key)
               THEN \E r \in UpdateMetadataIfNeeded(s3_path, NoOutput, TRUE,
                                                      store, now) :
                      /\ store' = r.store
                      /\ run' = [run EXCEPT !.i = @ + 1,
                                   !.violations = @ \cup ({r.violation} \ {"none"})]
               ELSE /\ store' \in SetFileTimestamp(local_path, s3_path, store,
                                                    localfs, now, run.utc_offset)
                    /\ run' = [run EXCEPT !.i = @ + 1]
    /\ UNCHANGED <<now, localfs, up, ck, tsp>>

\* update_metadata_for_file(): one S3TimestampProcessor called on its
\* s3_file; "already exists" is logged as a skip, every other exception is
\* raised again
MaxStampCalls == 2

UpdateMetadataForFile ==
    /\ tsp.calls < MaxStampCalls
    /\ \E s3_file \in {<<>>, D1}, output \in {NoOutput, D2}, force \in BOOLEAN :
         LET Returned(result, violation) ==
                 [pc |-> "returned", calls |-> tsp.calls + 1, s3_file |-> s3_file,
                  output |-> output, force |-> force, result |-> result,
                  violation |-> violation, before |-> store]
         IN IF s3_file = <<>>
            THEN /\ tsp' = Returned("raised", "none")
                 /\ store' = store
            ELSE \E r \in UpdateMetadataIfNeeded(s3_file, output, force, store, now) :
                   /\ store' = r.store
                   /\ tsp' = Returned(IF r.result = "exists" THEN "skipped"
                                      ELSE r.result, r.violation)
    /\ UNCHANGED <<now, localfs, up, ck, run>>

\* the store as a timestamp processor can find it: the object absent or
\* present with or without the metadata key, an output key free or taken, a
\* backup left by an earlier call or none
StampStores ==
    {[EmptyStore EXCEPT ![D1] = object, ![D2] = output, ![BackupPath(D1)] = backup] :
        object \in {NoObj} \cup {Obj(DataBody(b), ts, 0) : b \in {"A", "B"}, ts \in {NoTs, 1}},
        output \in {NoObj, Obj(DataBody("B"), NoTs, 0)},
        backup \in {NoObj, Obj(DataBody("B"), NoTs, 0)}}

InitStamp ==
    /\ now = RunNow
    /\ store \in StampStores
    /\ localfs = NoFiles
    /\ up = UpIdle
    /\ ck = [p \in Procs |-> CkIdle]
    /\ run = RunOff
    /\ tsp = TspIdle

NextStamp == UpdateMetadataForFile

SpecStamp == InitStamp /\ [][NextStamp]_vars

-----------------------------------------------------------------------------
(* s3_set_timestamp.py: update_metadata_if_needed step by step, one store   *)
(* call per step, with the SIGINT of the terminal.  disable_interrupts()    *)
(* sets SIGINT to SIG_IGN on entry and puts the handler back on exit; it    *)
(* is entered for the backup COPY, for the COPY with the new metadata and   *)
(* for the DELETE of the backup, each on its own.                           *)

\* the positions at which SIGINT is ignored: inside a with-block
SiMasked == {"backup_call", "copy_call", "delete_call"}

\* the positions of a call in progress
SiRunning ==
    {"head", "download", "backup", "backup_call", "verify_backup", "copy",
     "copy_call", "verify_updated", "delete_backup", "delete_call"}

SiEnd(frame, result, violation) ==
    [frame EXCEPT !.pc = "returned", !.result = result, !.violation = violation]

\* update_metadata_if_needed(s3_uri, ..., output_s3_uri, force) is called
SiStart ==
    /\ tsp.pc = "idle"
    /\ \E output \in {NoOutput, D2}, force \in BOOLEAN :
         tsp' = [pc |-> "head", calls |-> 1, s3_file |-> D1, output |-> output,
                 force |-> force, result |-> "none", violation |-> "none",
                 before |-> store, latest_ts |-> NoTs, at |-> "none"]
    /\ UNCHANGED <<store, now, localfs, up, ck, run>>

\* head = head_object(key); if metadata_key in existing_metadata and not
\* force: raise ValueError("Metadata key already exists.")
SiHead ==
    /\ tsp.pc = "head"
    /\ \/ tsp' = SiEnd(tsp, "raised", "none")
       \/ /\ store[tsp.s3_file].present
          /\ tsp' = IF SkipsExisting(store[tsp.s3_file].ts # NoTs, tsp.force)
                    THEN SiEnd(tsp, "exists", "none")
                    ELSE [tsp EXCEPT !.pc = "download"]
    /\ UNCHANGED <<store, now, localfs, up, ck, run>>

\* download_fileobj(bucket, key, tmp); latest_ts = get_last_timestamp(...)
SiDownload ==
    /\ tsp.pc = "download"
    /\ \/ tsp' = SiEnd(tsp, "raised", "none")
       \/ /\ store[tsp.s3_file].present
          /\ tsp' = [tsp EXCEPT !.pc = "backup",
                        !.latest_ts = LatestTs(store[tsp.s3_file].body[2], now)]
    /\ UNCHANGED <<store, now, localfs, up, ck, run>>

\* with disable_interrupts(): entered before each of the three calls
SiEnter ==
    /\ tsp.pc \in {"backup", "copy", "delete_backup"}
    /\ tsp' = [tsp EXCEPT !.pc = CASE tsp.pc = "backup" -> "backup_call"
                                  [] tsp.pc = "copy" -> "copy_call"
                                  [] OTHER -> "delete_call"]
    /\ UNCHANGED <<store, now, localfs, up, ck, run>>

\* copy_object(Key=backup_key, CopySource=key), then the handler is put back
SiBackup ==
    /\ tsp.pc = "backup_call"
    /\ \/ /\ tsp' = SiEnd(tsp, "raised", "none")
          /\ store' = store
       \/ /\ store[tsp.s3_file].present
          /\ \E b \in {store[tsp.s3_file].body[2]}
                       \cup Corrupted(store[tsp.s3_file].body[2]) :
                store' = Put(store, BackupPath(tsp.s3_file),
                             Obj(DataBody(b), store[tsp.s3_file].ts, now))
          /\ tsp' = [tsp EXCEPT !.pc = "verify_backup"]
    /\ UNCHANGED <<now, localfs, up, ck, run>>

\* original_head, backup_head = head_object(...); the ETags compared
SiVerifyBackup ==
    /\ tsp.pc = "verify_backup"
    /\ \/ tsp' = SiEnd(tsp, "raised", "none")
       \/ /\ store[tsp.s3_file].present /\ store[BackupPath(tsp.s3_file)].present
          /\ tsp' = IF BackupVerified(store[tsp.s3_file],
                                      store[BackupPath(tsp.s3_file)])
                    THEN [tsp EXCEPT !.pc = "copy"]
                    ELSE SiEnd(tsp, "raised", "backup")
    /\ UNCHANGED <<store, now, localfs, up, ck, run>>

\* copy_object(Key=destination_key, CopySource=key, Metadata=updated_metadata,
\* MetadataDirective="REPLACE"), then the handler is put back
SiCopy ==
    /\ tsp.pc = "copy_call"
    /\ \/ /\ tsp' = SiEnd(tsp, "raised", "none")
          /\ store' = store
       \/ /\ store[tsp.s3_file].present
          /\ \E b \in {store[tsp.s3_file].body[2]}
                       \cup Corrupted(store[tsp.s3_file].body[2]) :
                store' = Put(store,
                             IF tsp.output # NoOutput THEN tsp.output ELSE tsp.s3_file,
                             Obj(DataBody(b), tsp.latest_ts, now))
          /\ tsp' = [tsp EXCEPT !.pc = "verify_updated"]
    /\ UNCHANGED <<now, localfs, up, ck, run>>

\* updated_head = head_object(key); its ETag compared with the backup's
SiVerifyUpdated ==
    /\ tsp.pc = "verify_updated"
    /\ \/ tsp' = SiEnd(tsp, "raised", "none")
       \/ /\ store[tsp.s3_file].present
          /\ tsp' = IF UpdatedVerified(store[tsp.s3_file],
                                       store[BackupPath(tsp.s3_file)])
                    THEN [tsp EXCEPT !.pc = "delete_backup"]
                    ELSE SiEnd(tsp, "raised", "updated")
    /\ UNCHANGED <<store, now, localfs, up, ck, run>>

\* delete_object(Key=backup_key) in its own try: a failure is a warning
SiDeleteBackup ==
    /\ tsp.pc = "delete_call"
    /\ store' \in {store, Delete(store, BackupPath(tsp.s3_file))}
    /\ tsp' = SiEnd(tsp, "done", "none")
    /\ UNCHANGED <<now, localfs, up, ck, run>>

\* SIGINT from the terminal while the handler is the default one:
\* KeyboardInterrupt, which no except clause of the call catches, ends the
\* process; inside a with-block the signal is ignored
SiInterrupt ==
    /\ tsp.pc \in SiRunning \ SiMasked
    /\ tsp' = [tsp EXCEPT !.pc = "interrupted", !.at = tsp.pc]
    /\ UNCHANGED <<store, now, localfs, up, ck, run>>

NextInterrupt ==
    \/ SiStart \/ SiHead \/ SiDownload \/ SiEnter \/ SiBackup \/ SiVerifyBackup
    \/ SiCopy \/ SiVerifyUpdated \/ SiDeleteBackup \/ SiInterrupt

SpecInterrupt == InitStamp /\ [][NextInterrupt]_vars

\* the content file and its log as a run can find them: the content file
\* missing, empty, a 14-byte stamp, or produced at one of three times, with
\* its log; or the content file produced and its log missing or empty
RunLocalFiles ==
    {[NoFiles EXCEPT ![L1] = file, ![L1log] = File("A", 2), ![L2] = File("B", 2)] :
        file \in {NoFile, File("", 2), File("E14", 2)} \cup {File("A", m) : m \in 0..2}}
    \cup {[NoFiles EXCEPT ![L1] = File("A", 2), ![L1log] = log, ![L2] = File("B", 2)] :
        log \in {NoFile, File("", 2)}}

\* the store as a run can find it: the content destination published or
\* not, with or without freshness metadata, and a marker of another
\* invocation at its .wip key or none; or only the log published
RunStores ==
    {[EmptyStore EXCEPT ![D1] = dest, ![WipPath(D1)] = marker] :
        dest \in {NoObj} \cup {Obj(DataBody("B"), ts, 0) : ts \in {NoTs, 1}},
        marker \in {NoObj, Obj(WipBody(Other), NoTs, RunNow)}}
    \cup {[EmptyStore EXCEPT ![D1log] = Obj(DataBody("B"), 1, 0)]}

InitRun ==
    /\ now = RunNow
    /\ store \in RunStores
    /\ localfs \in RunLocalFiles
    /\ up = UpIdle
    /\ tsp = TspIdle
    /\ ck = [p \in Procs |-> CkIdle]
    /\ run = RunOff

NextRun ==
    \/ RunStart
    \/ RunCreateWip
    \/ RunPair
    \/ RunUpload
    \/ RunRemoveWip
    \/ RunSetTimestamp

SpecRun == InitRun /\ [][NextRun]_vars

\* the pair loop on its own: the command lines without the marker options
\* and without --set-timestamp, none of which the loop reads
LoopArgs == {a \in RunArgs : ~a.create_wip /\ ~a.remove_wip /\ ~a.set_timestamp}

RunStartLoop == RunStartWith(LoopArgs)

NextLoop ==
    \/ RunStartLoop
    \/ RunPair
    \/ RunUpload
    \/ RunRemoveWip

\* the run as a process that goes on: main is sequential, and each store
\* call of an element returns or raises
SpecLoop == InitRun /\ [][NextLoop]_vars /\ WF_vars(RunPair) /\ WF_vars(RunUpload)

\* two runs of the same command line, one after the other
InitTwice ==
    /\ now = RunNow
    /\ \E dest \in {NoObj, Obj(DataBody("B"), 1, 0)},
          file \in {NoFile, File("A", 0), File("A", 2)} :
         /\ store = [EmptyStore EXCEPT ![D1] = dest]
         /\ localfs = [NoFiles EXCEPT ![L1] = file, ![L1log] = File("A", 2),
                                      ![L2] = File("B", 2)]
    /\ up = UpIdle
    /\ tsp = TspIdle
    /\ ck = [p \in Procs |-> CkIdle]
    /\ run = RunOff

NextTwice ==
    \/ RunStartTwice
    \/ RunPair
    \/ RunUpload
    \/ RunRemoveWip
    \/ RunSetTimestamp
    \/ RunAgain

SpecTwice == InitTwice /\ [][NextTwice]_vars

----------------------------------------------------------------------------
(* Claims on upload_with_retries, under SpecUp *)

\* C1: upload_with_retries returns True only if the digest of the object at
\* the final key, read again after the COPY, equals the digest of the local
\* file computed at the start of the call; the destination then holds the
\* local file's bytes.
C1_ChecksumGate ==
    up.ret = "true" =>
        /\ up.copied
        /\ up.s3_md5_overwritten = up.local_md5
        /\ store[up.s3_path].present
        /\ Md5(store[up.s3_path].body) = Md5(DataBody(localfs[up.local_file_path].bytes))

\* success after at least one failed attempt, the destination written by
\* this call
C1_Witness ==
    /\ up.ret = "true"
    /\ up.attempt >= 1
    /\ store[up.s3_path].mtime = now

----------------------------------------------------------------------------
(* Claims on the existence/WIP check, under SpecCheck *)

\* neither HEAD of the invocation raised
HeadsOk(f) == f.raised \cap {"head_dest", "head_wip"} = {}

\* C2: if <ref>.wip exists with age <= max-age and the destination is absent
\* (both as the invocation's HEAD calls find them, neither failing), the
\* check goes to exit code 2 and issues no PUT and no DELETE; a failure to
\* read the marker body does not change this.
C2_FreshMarkerHeld ==
    \A p \in Procs :
        (/\ ck[p].wip
         /\ HeadsOk(ck[p])
         /\ ck[p].dest_seen = "absent"
         /\ ck[p].wip_seen = "live")
        => /\ ck[p].issued = {}
           /\ ck[p].pc \in {"get_wip", "exit"}
           /\ ck[p].pc = "exit" => ck[p].exit = 2

\* exit 2 on a live marker although the read of its body failed
C2_Witness ==
    \E p \in Procs :
        /\ ck[p].pc = "exit" /\ ck[p].exit = 2
        /\ ck[p].create_wip /\ ck[p].files # <<>>
        /\ ck[p].wip_seen = "live" /\ "get" \in ck[p].raised

\* the precondition of C3: --create-wip, the destination absent and the
\* marker stale at the HEAD calls, neither failing, and the check finished
C3_Case(p) ==
    /\ ck[p].pc = "exit"
    /\ ck[p].create_wip
    /\ HeadsOk(ck[p])
    /\ ck[p].dest_seen = "absent"
    /\ ck[p].wip_seen = "stale"

StaleDeleteIssued(p) ==
    \E outcome \in {"ok", "error"} :
        <<"DELETE", WipPath(ck[p].s3_file_exists), outcome>> \in ck[p].issued

\* C3 as stated: a stale marker with the destination absent is deleted and
\* the check with --wip --create-wip exits 0.
C3_StaleReclaimedExit0 ==
    \A p \in Procs : C3_Case(p) => StaleDeleteIssued(p) /\ ck[p].exit = 0

\* C3 as amended: the DELETE of the stale marker is issued and the check
\* never exits 2; it exits 0 exactly when a non-empty file list of whole pairs
\* with well-formed destinations was passed, and 1 otherwise.
C3_StaleReclaimed ==
    \A p \in Procs :
        C3_Case(p) =>
            /\ StaleDeleteIssued(p)
            /\ ck[p].exit # 2
            /\ ck[p].exit = 0 <=>
                 /\ ck[p].files # <<>>
                 /\ PairsOk(ck[p].files)
                 /\ \A k \in 1..(Len(ck[p].files) \div 2) :
                      IsWipContent(FilePairs(ck[p].files)[k][1])
                        => ParseOk(FilePairs(ck[p].files)[k][2])

\* a stale marker reclaimed, a new one written at the same key, exit 0
C3_Witness ==
    \E p \in Procs :
        /\ C3_Case(p) /\ ck[p].exit = 0
        /\ <<"DELETE", WipPath(D1), "ok">> \in ck[p].issued
        /\ <<"PUT", WipPath(D1), "ok">> \in ck[p].issued

\* C4 as stated: whenever the check exits 0 with the destination absent
\* (Acquired), this invocation has written a marker at <ref>.wip.
C4_AcquiredHasMarker ==
    \A p \in Procs :
        (ck[p].pc = "exit" /\ ck[p].exit = 0 /\ ck[p].dest_seen = "absent")
        => <<"PUT", WipPath(ck[p].s3_file_exists), "ok">> \in ck[p].issued

\* C5 as stated: with --wip, a live marker at <ref>.wip when the check runs
\* makes it exit 2, whether or not the destination exists.
C5_LiveMarkerExit2 ==
    \A p \in Procs :
        (/\ ck[p].pc = "exit"
         /\ ck[p].wip
         /\ HeadsOk(ck[p])
         /\ ck[p].wip_at_start = "live"
         /\ ck[p].wip_seen \in {"live", "unseen"})
        => ck[p].exit = 2

\* C5 as amended: with --wip and a live marker, the check exits 2 when the
\* destination is absent and 0 when the destination exists (the destination
\* is tested first and the marker is then not looked at).
C5_LiveMarkerExit ==
    \A p \in Procs :
        (/\ ck[p].pc = "exit"
         /\ ck[p].wip
         /\ HeadsOk(ck[p])
         /\ ck[p].wip_at_start = "live"
         /\ ck[p].wip_seen \in {"live", "unseen"})
        => /\ ck[p].dest_seen = "present" => ck[p].exit = 0 /\ ck[p].wip_seen = "unseen"
           /\ ck[p].dest_seen = "absent" => ck[p].exit = 2 /\ ck[p].wip_seen = "live"

\* the destination exists, a live marker too: exit 0
C5_Witness ==
    \E p \in Procs :
        /\ ck[p].pc = "exit" /\ ck[p].exit = 0
        /\ ck[p].wip /\ HeadsOk(ck[p])
        /\ ck[p].dest_seen = "present" /\ ck[p].wip_at_start = "live"

\* C6 as stated: the check exits 1 only when the destination is absent and
\* no live marker exists for it, also when a store call fails or --wip is
\* not given.
C6_Exit1OnlyAbsentUnlocked ==
    \A p \in Procs :
        (ck[p].pc = "exit" /\ ck[p].exit = 1)
        => /\ ck[p].dest_seen = "absent"
           /\ ck[p].wip_at_start # "live"
           /\ ck[p].wip_seen # "live"

\* C6 as amended: with --wip given and neither HEAD failing, the check exits
\* 1 only when the destination is absent and no live marker exists.
C6_Exit1 ==
    \A p \in Procs :
        (ck[p].pc = "exit" /\ ck[p].exit = 1 /\ ck[p].wip /\ HeadsOk(ck[p]))
        => /\ ck[p].dest_seen = "absent"
           /\ ck[p].wip_seen \in {"absent", "stale"}

\* exit 1 with --wip: the destination absent, a stale marker reclaimed
C6_Witness ==
    \E p \in Procs :
        /\ ck[p].pc = "exit" /\ ck[p].exit = 1
        /\ ck[p].wip /\ ~ck[p].create_wip /\ HeadsOk(ck[p])
        /\ ck[p].wip_seen = "stale"

\* C7 as stated: for invocations that do not overlap and with no store
\* failure, once one check on a ref has exited 0 with the destination
\* absent (Acquired), a later check with --wip on the same ref that starts
\* within max-age of the first one's start exits 2 (no invocation of this
\* specification releases a marker).
C7_OneHolder ==
    \A p \in Procs : \A q \in Procs \ {p} :
        (/\ ck[p].pc = "exit" /\ ck[q].pc = "exit"
         /\ p \in ck[q].after
         /\ ck[p].raised = {} /\ ck[q].raised = {}
         /\ ck[p].s3_file_exists = ck[q].s3_file_exists
         /\ ck[p].exit = 0 /\ ck[p].dest_seen = "absent"
         /\ ck[q].wip /\ ck[q].dest_seen = "absent"
         /\ now - ck[p].start_time <= ck[q].wip_max_age)
        => ck[q].exit = 2

----------------------------------------------------------------------------
(* Claims on the upload run of main(), under SpecRun and SpecTwice *)

\* the pairs of a started run, as 1..n
\* the object at a key; an argument that is no S3 URI names no object
ObjAt(st, key) == IF key \in Keys THEN st[key] ELSE NoObj

RunPairs == IF run.pc = "off" \/ ~PairsOk(run.files) THEN {}
            ELSE 1..(Len(run.files) \div 2)

LocalOf(k) == FilePairs(run.files)[k][1]

DestOf(k) == FilePairs(run.files)[k][2]

\* a marker of another invocation was at <dest>.wip, and fresh, when the run
\* started
ForeignMarkerAtStart(k) ==
    LET marker == ObjAt(run.store_at_start, WipPath(DestOf(k)))
    IN marker.present /\ marker.body = WipBody(Other) /\ marker.mtime = now

\* C8: while another invocation holds a live marker at <dest>.wip, an upload
\* run started with --create-wip writes nothing to that destination and
\* leaves that marker as it found it.
C8_ForeignMarkerRespected ==
    \A k \in RunPairs :
        (run.create_wip /\ IsWipContent(LocalOf(k)) /\ ForeignMarkerAtStart(k))
        => /\ ObjAt(store, DestOf(k)) = ObjAt(run.store_at_start, DestOf(k))
           /\ ObjAt(store, WipPath(DestOf(k))) = ObjAt(run.store_at_start, WipPath(DestOf(k)))

\* C9 (as stated): after an upload run with --remove-wip has ended, normally
\* or by a fatal exit, no marker remains at <dest>.wip for any content
\* destination of its file pairs.
C9_NoMarkerAfterRun ==
    \A k \in RunPairs :
        (run.pc = "exit" /\ run.remove_wip /\ IsWipContent(LocalOf(k)))
        => ~ObjAt(store, WipPath(DestOf(k))).present

\* C9 (amended): when an upload run with --remove-wip ends with exit 0, a
\* DELETE of <dest>.wip has been issued for exactly the content elements
\* that were Uploaded; where that DELETE succeeded no marker remains, and
\* the marker of every other element is as the run found or created it.
C9_UploadedMarkersReleased ==
    \A k \in RunPairs :
        (run.pc = "exit" /\ run.exit = 0 /\ run.remove_wip
            /\ ParseOk(DestOf(k)))
        => LET wip_path == WipPath(DestOf(k))
               deleted == {<<"DELETE", wip_path, "ok">>,
                           <<"DELETE", wip_path, "error">>} \cap run.issued
           IN /\ (deleted # {}) <=>
                    (run.outcome[k] = "Uploaded" /\ IsWipContent(LocalOf(k)))
              /\ <<"DELETE", wip_path, "ok">> \in run.issued
                    => ~store[wip_path].present
              /\ (deleted = {} /\ <<"PUT", wip_path, "ok">> \notin run.issued)
                    => store[wip_path] = run.store_at_start[wip_path]

\* an Uploaded content element whose marker, present when the run started,
\* is gone at the end of the run
C9_Witness ==
    /\ run.pc = "exit" /\ run.exit = 0 /\ run.remove_wip
    /\ run.files = <<L1, D1, L1log, D1log>>
    /\ run.outcome[1] = "Uploaded"
    /\ run.store_at_start[WipPath(D1)].present
    /\ ~store[WipPath(D1)].present

\* a log that follows its content file in the list
IsPairedLog(k) == k > 1 /\ HasCorrespondingContent(FilePairs(run.files), k)

\* C10: without --force-overwrite and --upload-if-newer, an element whose
\* destination is absent is not skipped as already existing in the first
\* run, and an element Uploaded by the first run is, when the second run of
\* the same command line comes to it, skipped as already existing (a log
\* goes with its skipped content file); the destination bytes after the
\* second run are those after the first.
C10_UploadIdempotent ==
    \A k \in RunPairs :
        (~run.force_overwrite /\ ~run.upload_if_newer)
        => /\ (run.run_no = 1 /\ ~ObjAt(run.store_at_start, DestOf(k)).present)
                => run.outcome[k] \in {"Pending", "Uploaded", "Failed", "Raised", "SkipWithContent"}
           /\ (run.run_no = 2 /\ run.first_outcome[k] = "Uploaded")
                => /\ run.outcome[k] \in
                        IF IsPairedLog(k)
                        THEN {"Pending", "SkipWithContent"}
                        ELSE {"Pending", "SkipAlreadyExists"}
                   /\ ObjAt(store, DestOf(k)).present
                   /\ ObjAt(store, DestOf(k)).body = ObjAt(run.first_store, DestOf(k)).body

\* the second run has ended after skipping what the first run uploaded to a
\* destination that was absent
C10_Witness ==
    /\ run.pc = "exit" /\ run.run_no = 2 /\ run.exit = 0
    /\ ~run.force_overwrite /\ ~run.upload_if_newer
    /\ run.files = <<L1, D1>>
    /\ ~run.store_at_start[D1].present
    /\ run.first_outcome[1] = "Uploaded"
    /\ run.outcome[1] = "SkipAlreadyExists"
    /\ store[D1].body = DataBody("A")

\* the run is in its loop or in the marker cleanup: nothing has yet been
\* written to a published destination after its upload
BeforeStamping == run.pc \in {"pair", "upload", "remove_wip"}

\* the digest of the local file of element k as the run found it
LocalDigest(k) == Md5(DataBody(run.files_at_start[LocalOf(k)].bytes))

HeadIssued(k) ==
    \E what \in {"exists", "metadata", "error"} :
        <<"HEAD", DestOf(k), what>> \in run.issued

\* C11: with --force-overwrite no existence or freshness check is made for
\* any element and no element is skipped for what the destination holds; an
\* element is Uploaded unless the transfer itself fails, and the destination
\* digest after the upload equals the local digest.
C11_ForceOverwrite ==
    \A k \in RunPairs :
        run.force_overwrite
        => /\ ~HeadIssued(k)
           /\ run.outcome[k] \in {"Pending", "Uploaded", "Failed", "Raised", "SkipWithContent"}
           /\ (run.outcome[k] = "SkipWithContent") => (k > 1 /\ run.outcome[k - 1] = "Failed")
           /\ (run.outcome[k] = "Uploaded" /\ BeforeStamping)
                => /\ ObjAt(store, DestOf(k)).present
                   /\ Md5(ObjAt(store, DestOf(k)).body) = LocalDigest(k)

\* a destination that held other bytes, overwritten under --force-overwrite
C11_Witness ==
    /\ run.pc = "remove_wip" /\ run.force_overwrite
    /\ run.files = <<L1, D1>>
    /\ run.store_at_start[D1].present
    /\ run.store_at_start[D1].body = DataBody("B")
    /\ run.outcome[1] = "Uploaded"
    /\ store[D1].body = DataBody("A")

\* element k met the freshness comparison: --upload-if-newer without
\* --force-overwrite, not a log forced by its content file, a non-stamp
\* local file, the destination present with the metadata key, and the
\* metadata HEAD answered
FreshnessCompared(k) ==
    /\ run.upload_if_newer /\ ~run.force_overwrite
    /\ ~(IsPairedLog(k) /\ run.outcome[k - 1] = "Uploaded")
    /\ ~IsStamp(LocalOf(k), Size(run.files_at_start[LocalOf(k)].bytes))
    /\ ObjAt(run.store_at_start, DestOf(k)).present
    /\ ObjAt(run.store_at_start, DestOf(k)).ts # NoTs
    /\ <<"HEAD", DestOf(k), "metadata">> \in run.issued

\* the upload of element k was begun: the call is running, has returned, or
\* has raised
UploadBegun(k) ==
    \/ run.pc = "upload" /\ run.pair_idx = k
    \/ run.outcome[k] \in {"Uploaded", "Failed", "Raised"}

\* C12: under --upload-if-newer (no force), for a destination that carries
\* the freshness metadata and a non-stamp local file, the upload is begun
\* if and only if the local mtime is strictly later than the remote
\* timestamp; otherwise the outcome is SkipUpToDate and neither the
\* destination nor its temporary key is modified.
C12_UploadIffNewer ==
    \A k \in RunPairs :
        FreshnessCompared(k)
        => LET newer == run.files_at_start[LocalOf(k)].mtime
                            > ObjAt(run.store_at_start, DestOf(k)).ts
           IN /\ newer <=> UploadBegun(k)
              /\ ~newer <=> run.outcome[k] = "SkipUpToDate"
              /\ ~newer => /\ ObjAt(store, DestOf(k)) = ObjAt(run.store_at_start, DestOf(k))
                           /\ ObjAt(store, TmpPath(DestOf(k)))
                                = ObjAt(run.store_at_start, TmpPath(DestOf(k)))

\* local mtime equal to the remote timestamp: skipped as up to date
C12_Witness ==
    /\ run.pc = "exit" /\ run.exit = 0
    /\ run.files = <<L1, D1>>
    /\ FreshnessCompared(1)
    /\ run.files_at_start[L1].mtime = run.store_at_start[D1].ts
    /\ run.outcome[1] = "SkipUpToDate"

Skips == {"SkipAlreadyExists", "SkipStampFile", "SkipUpToDate", "SkipWithContent"}

\* C13: when a content file that is followed by its companion log is
\* skipped or fails, the log is not attempted (no existence or metadata
\* HEAD, no upload) and nothing is written to its destination in that run.
C13_LogFollowsContent ==
    \A k \in RunPairs :
        (/\ IsContentFile(FilePairs(run.files), k)
         /\ run.outcome[k] \in Skips \cup {"Failed"})
        => /\ run.outcome[k + 1] = "SkipWithContent"
           /\ ~HeadIssued(k + 1)
           /\ ~UploadBegun(k + 1)
           /\ ObjAt(store, DestOf(k + 1)) = ObjAt(run.store_at_start, DestOf(k + 1))
           /\ ObjAt(store, TmpPath(DestOf(k + 1)))
                = ObjAt(run.store_at_start, TmpPath(DestOf(k + 1)))

\* the content upload failed under --force-overwrite: the log, absent
\* remotely, is not uploaded
C13_Witness ==
    /\ run.pc = "exit" /\ run.exit = 0 /\ run.force_overwrite
    /\ run.files = <<L1, D1, L1log, D1log>>
    /\ run.outcome[1] = "Failed"
    /\ run.outcome[2] = "SkipWithContent"
    /\ ~store[D1log].present

\* the loop has come to element k and is done with its checks
Decided(k) ==
    \/ run.pair_idx > k
    \/ run.pair_idx = k /\ run.pc \in {"upload", "exit"}

\* the log of an Uploaded content file, after the checks of the loop
C14_Case(k) ==
    /\ IsPairedLog(k)
    /\ run.outcome[k - 1] = "Uploaded"
    /\ Decided(k)

\* C14 (as stated): once a content file is Uploaded, the upload of its
\* companion log is always begun next, with no existence or metadata HEAD.
C14_LogAlwaysAttempted ==
    \A k \in RunPairs : C14_Case(k) => (UploadBegun(k) /\ ~HeadIssued(k))

\* C14 (amended): once a content file is Uploaded, its companion log is
\* never skipped and no existence or metadata HEAD is made for it, whatever
\* the flags and the remote state; its upload is begun exactly when the log
\* exists locally and is not empty, and otherwise the run exits 1 at the log.
C14_LogForced ==
    \A k \in RunPairs :
        C14_Case(k)
        => LET log == run.files_at_start[LocalOf(k)]
           IN /\ ~HeadIssued(k)
              /\ run.outcome[k] \notin Skips
              /\ UploadBegun(k) <=> (log.exists /\ Size(log.bytes) > 0)
              /\ ~UploadBegun(k) => (run.pc = "exit" /\ run.exit = 1)

\* the log is published and as new as the local one, --force-overwrite is
\* not set: the content file was uploaded and the log was uploaded after it
C14_Witness ==
    /\ run.pc # "off"
    /\ run.files = <<L1, D1, L1log, D1log>>
    /\ ~run.force_overwrite /\ run.upload_if_newer
    /\ run.store_at_start[D1log].present
    /\ C14_Case(2)
    /\ run.outcome[2] = "Uploaded"

\* element k under --upload-if-newer, its local file of 0 bytes or a .bz2
\* of 14 bytes, after the checks of the loop (a log passed over with its
\* content file is not looked at)
C15_Case(k) ==
    /\ run.upload_if_newer
    /\ run.outcome[k] # "SkipWithContent"
    /\ run.files_at_start[LocalOf(k)].exists
    /\ \/ Size(run.files_at_start[LocalOf(k)].bytes) = 0
       \/ /\ Size(run.files_at_start[LocalOf(k)].bytes) = 14
          /\ EndsWith(LocalOf(k), ".bz2")
    /\ Decided(k)

\* C15 (as stated): under --upload-if-newer a 0-byte file and a 14-byte
\* .bz2 file get the outcome SkipStampFile, with or without
\* --force-overwrite and whether or not the destination exists.
C15_StampSkipped ==
    \A k \in RunPairs : C15_Case(k) => run.outcome[k] = "SkipStampFile"

\* the run ended with exit 1 and element k undecided
EndedAt(k) == run.pc = "exit" /\ run.exit = 1 /\ run.outcome[k] = "Pending"

\* C15 (what the code does): under --upload-if-newer a 0-byte file is never
\* uploaded and never skipped: the run exits 1 at it; a 14-byte .bz2 file is
\* SkipStampFile without --force-overwrite, whether or not the destination
\* exists (or the run exits 1 on a failed existence check), and with
\* --force-overwrite its upload is begun.
C15_StampPolicy ==
    \A k \in RunPairs :
        C15_Case(k)
        => LET size == Size(run.files_at_start[LocalOf(k)].bytes)
           IN /\ size = 0 => EndedAt(k)
              /\ (size = 14 /\ ~run.force_overwrite)
                    => (run.outcome[k] = "SkipStampFile" \/ EndedAt(k))
              /\ (size = 14 /\ run.force_overwrite)
                    => (UploadBegun(k) \/ EndedAt(k))

\* a 14-byte .bz2 file skipped as a stamp although the destination is absent
C15_Witness ==
    /\ run.pc = "exit" /\ run.exit = 0
    /\ run.files = <<L1, D1>>
    /\ C15_Case(1) /\ ~run.force_overwrite
    /\ ~run.store_at_start[D1].present
    /\ run.outcome[1] = "SkipStampFile"

\* element k of the file list has a precondition error: a forbidden
\* extension, a local file that is missing or has 0 bytes, a destination that
\* is no S3 URI
Offending(k) ==
    \/ \E ext \in forbid_extensions : EndsWith(LocalOf(k), ext)
    \/ ~run.files_at_start[LocalOf(k)].exists
    \/ Size(run.files_at_start[LocalOf(k)].bytes) = 0
    \/ ~ParseOk(DestOf(k))

\* the argument list itself is unusable: empty, or an odd number of arguments
BadFileList == run.files = <<>> \/ ~PairsOk(run.files)

\* the run has ended with exit code 1 on a precondition error
FatalExit ==
    /\ run.pc = "exit"
    /\ run.exit = 1
    /\ \/ BadFileList
       \/ \E k \in RunPairs : run.pair_idx = k /\ Offending(k)

\* C16 (as stated): a precondition error makes the run exit non-zero before it
\* has performed any store mutation, wherever the offending pair stands
C16_NoMutationBeforeFatal ==
    (run.pc # "off" /\ FatalExit) => store = run.store_at_start

\* C16: an unusable argument list ends the run with exit code 1 before any
\* store call; an offending element is never published (neither its
\* destination nor its temporary key is written), the run does not go past it
\* unless it is a log passed over with its content file, and a run that stops
\* on it exits with 1; what earlier elements and --create-wip wrote stays
C16_FatalBeforeOwnMutation ==
    run.pc # "off" =>
        /\ BadFileList /\ run.pc = "exit" =>
               /\ run.exit = 1
               /\ store = run.store_at_start
               /\ run.issued = {}
        /\ \A k \in RunPairs : Offending(k) =>
               /\ run.outcome[k] \in {"Pending", "SkipWithContent", "Raised"}
               /\ run.pair_idx > k => run.outcome[k] = "SkipWithContent"
               /\ (run.pc = "exit" /\ run.pair_idx = k) => run.exit = 1
               /\ ParseOk(DestOf(k)) =>
                      /\ ObjAt(store, DestOf(k)) = ObjAt(run.store_at_start, DestOf(k))
                      /\ ObjAt(store, TmpPath(DestOf(k))) = ObjAt(run.store_at_start, TmpPath(DestOf(k)))

\* a run stopped on the second element's precondition error after the first
\* element was published
C16_Witness ==
    /\ run.pc # "off"
    /\ FatalExit
    /\ \E k \in RunPairs :
          /\ run.pair_idx = k
          /\ Offending(k)
          /\ \E j \in RunPairs : j < k /\ run.outcome[j] = "Uploaded"

\* C17 (as stated): every integrity violation met during an upload run (the
\* digest of the final object differing after the copy, the ETag of the
\* backup differing from the original, the ETag of the updated object
\* differing from the backup) ends the run with a non-zero exit code: the run
\* does not go on to later files and never exits with 0 after one
C17_ViolationEndsRun ==
    (run.pc # "off" /\ run.violations # {}) => (run.pc = "exit" /\ run.exit = 1)

\* the call got as far as its attempts: the destination parsed and the
\* digest of the local file was computed
AttemptsBegun ==
    /\ up.pc # "idle"
    /\ up.pc # "start"
    /\ ParseOk(up.s3_path)
    /\ localfs[up.local_file_path].exists

\* C18 (as stated): upload_with_retries makes at most max_retries PUT
\* attempts of the temporary object, and when no attempt produced a verified
\* match it returns False: it does not raise, whatever mismatches and store
\* errors the attempts meet
C18_BoundedReturnsFalse ==
    AttemptsBegun =>
        /\ up.pc = "put" => up.attempt < max_retries
        /\ up.pc = "done" =>
               /\ up.ret \in {"true", "false"}
               /\ up.ret = "false" => up.attempt = max_retries

-----------------------------------------------------------------------------
(* Claims on S3TimestampProcessor, under SpecStamp *)

\* the last call of update_metadata_if_needed ended without an exception
StampDone == tsp.pc = "returned" /\ tsp.result = "done"

\* the timestamp the last call extracted from the object it was given
NewValue == LatestTs(tsp.before[tsp.s3_file].body[2], now)

\* C19 (as stated): after a successful update_metadata_if_needed on an
\* object, that object has its ETag unchanged and the metadata key with the
\* new value, and no <key>.backup object remains, also with an output
\* destination and when the DELETE of the backup fails
C19_StampedNoBackup ==
    StampDone =>
        /\ store[tsp.s3_file].present
        /\ Md5(store[tsp.s3_file].body) = Md5(tsp.before[tsp.s3_file].body)
        /\ store[tsp.s3_file].ts = NewValue
        /\ ~store[BackupPath(tsp.s3_file)].present

\* C19: after a successful update_metadata_if_needed the object has its ETag
\* unchanged.  Without an output destination it carries the metadata key
\* with the new value; with one, the object is as it was and the key with the
\* new value is on the output object.  A backup that remains (its DELETE
\* failed) is a copy of the original object.
C19_Stamped ==
    StampDone =>
        /\ store[tsp.s3_file].present
        /\ Md5(store[tsp.s3_file].body) = Md5(tsp.before[tsp.s3_file].body)
        /\ tsp.output = NoOutput => store[tsp.s3_file].ts = NewValue
        /\ tsp.output # NoOutput =>
               /\ store[tsp.s3_file] = tsp.before[tsp.s3_file]
               /\ store[tsp.output].present
               /\ store[tsp.output].ts = NewValue
        /\ store[BackupPath(tsp.s3_file)].present =>
               /\ Md5(store[BackupPath(tsp.s3_file)].body)
                    = Md5(tsp.before[tsp.s3_file].body)
               /\ store[BackupPath(tsp.s3_file)].ts = tsp.before[tsp.s3_file].ts

\* a forced call in place that replaced an older value of the key and
\* deleted its backup
C19_Witness ==
    /\ StampDone
    /\ tsp.output = NoOutput
    /\ tsp.force
    /\ tsp.before[tsp.s3_file].ts # NoTs
    /\ tsp.before[tsp.s3_file].ts # NewValue
    /\ store[tsp.s3_file].ts = NewValue
    /\ ~store[BackupPath(tsp.s3_file)].present

\* the last call found the metadata key on the object and was not forced
KeyPresentNotForced ==
    /\ tsp.pc = "returned"
    /\ tsp.s3_file # <<>>
    /\ tsp.before[tsp.s3_file].present
    /\ tsp.before[tsp.s3_file].ts # NoTs
    /\ ~tsp.force

\* C20: if the metadata key is already on the object and force is false,
\* update_metadata_if_needed ends as a skip (or with the error of its HEAD)
\* and changes nothing in the store: no backup COPY, no COPY with new
\* metadata, no DELETE; the object, its metadata and the backup key are as
\* they were
C20_SkipNoMutation ==
    KeyPresentNotForced =>
        /\ tsp.result \in {"skipped", "raised"}
        /\ tsp.violation = "none"
        /\ store = tsp.before

\* a skip reported for an object that has the key, with no backup before or
\* after
C20_Witness ==
    /\ KeyPresentNotForced
    /\ tsp.result = "skipped"
    /\ ~tsp.before[BackupPath(tsp.s3_file)].present
    /\ ~store[BackupPath(tsp.s3_file)].present

-----------------------------------------------------------------------------
(* Claims on the failures of the clean-up calls *)

\* C21 (as stated): a failure of a clean-up DELETE does not change the
\* outcome of the operation around it: upload_with_retries still returns the
\* result of its verification (True after a verified copy, else False) when
\* the DELETE of the temporary key fails; the check still proceeds (no exit
\* 2, exit 0 exactly when it goes on to create markers) when the DELETE of a
\* stale marker fails; the run still exits 0 when the DELETE of a marker at
\* release fails
C21_CleanupFailureHarmless ==
    /\ (AttemptsBegun /\ up.pc = "done") =>
           up.ret = IF up.pending = "return_true" THEN "true" ELSE "false"
    /\ \A p \in Procs :
           (ck[p].pc = "exit" /\ "delete" \in ck[p].raised) =>
               /\ ck[p].exit \in {0, 1}
               /\ ck[p].exit = 0 => CreatesWip(ck[p].create_wip, ck[p].files)
    /\ (run.pc = "exit" /\ \E c \in run.issued : c[1] = "DELETE" /\ c[3] = "error") =>
           run.exit = 0

-----------------------------------------------------------------------------
(* The window between the HEAD and the PUT of the marker, under SpecCheck *)

\* invocation p ran the check with --create-wip for the pair (L1, D1) on the
\* ref D1, met no store failure, and its HEAD calls found neither the
\* destination nor a marker
SawFree(p) ==
    /\ ck[p].pc = "exit"
    /\ ck[p].create_wip
    /\ ck[p].s3_file_exists = D1
    /\ ck[p].files = <<L1, D1>>
    /\ ck[p].raised = {}
    /\ ck[p].dest_seen = "absent"
    /\ ck[p].wip_seen = "absent"

\* C22: two invocations of the check on the same ref whose HEAD of <ref>.wip
\* both found no marker both write their marker and both exit 0 (Acquired);
\* the second PUT replaces the first, so the store holds the marker of one
\* of the two holders
C22_BothAcquire ==
    \A p \in Procs : \A q \in Procs \ {p} :
        (SawFree(p) /\ SawFree(q)) =>
            /\ ck[p].exit = 0 /\ ck[q].exit = 0
            /\ <<"PUT", WipPath(D1), "ok">> \in ck[p].issued
            /\ <<"PUT", WipPath(D1), "ok">> \in ck[q].issued
            /\ store[WipPath(D1)].present
            /\ store[WipPath(D1)].body \in {WipBody(p), WipBody(q)}

\* two holders of the same ref: the store had no marker at the start, both
\* invocations found none and both acquired
C22_Witness ==
    /\ SawFree("p1") /\ SawFree("p2")
    /\ ck["p1"].wip_at_start = "absent" /\ ck["p2"].wip_at_start = "absent"
    /\ ck["p1"].exit = 0 /\ ck["p2"].exit = 0
    /\ store[WipPath(D1)].body = WipBody("p1")

-----------------------------------------------------------------------------
(* The order of the release of the markers and of the stamping, under      *)
(* SpecRun                                                                  *)

\* element k was uploaded in a run with --set-timestamp and the stamping of
\* its destination has not been done yet
StampingPending(k) ==
    /\ run.set_timestamp
    /\ run.outcome[k] = "Uploaded"
    /\ \/ run.pc \in {"pair", "upload", "remove_wip"}
       \/ /\ run.pc = "set_timestamp"
          /\ \E j \in run.i..Len(run.uploaded_files) :
                run.uploaded_files[j] = <<LocalOf(k), DestOf(k)>>

\* C23 (as stated): in a run with --set-timestamp and --remove-wip the marker
\* of a destination is deleted only after the stamping of that destination
\* is done: the marker the run wrote is never absent while the stamping is
\* pending
C23_ReleaseAfterStamping ==
    (run.pc # "off" /\ run.set_timestamp /\ run.remove_wip) =>
        \A k \in RunPairs :
            (/\ StampingPending(k)
             /\ <<"PUT", WipPath(DestOf(k)), "ok">> \in run.issued)
            => ObjAt(store, WipPath(DestOf(k))).present

\* C23: in a run with --set-timestamp and --remove-wip the markers are
\* released first: no marker is deleted while the upload loop runs, and when
\* the stamping begins a DELETE of the marker has been issued for every
\* uploaded content file, so that the marker is absent during the stamping
\* of its destination wherever that DELETE succeeded
C23_ReleaseBeforeStamping ==
    (run.pc # "off" /\ run.set_timestamp /\ run.remove_wip) =>
        /\ run.pc \in {"create_wip", "pair", "upload"} =>
               \A c \in run.issued : c[1] # "DELETE"
        /\ run.pc = "set_timestamp" =>
               \A k \in RunPairs :
                   (run.outcome[k] = "Uploaded" /\ IsWipContent(LocalOf(k))) =>
                       /\ \E outcome \in {"ok", "error"} :
                             <<"DELETE", WipPath(DestOf(k)), outcome>> \in run.issued
                       /\ <<"DELETE", WipPath(DestOf(k)), "ok">> \in run.issued
                             => ~ObjAt(store, WipPath(DestOf(k))).present

\* the stamping of an uploaded destination about to begin, its marker
\* already deleted
C23_Witness ==
    /\ run.pc = "set_timestamp"
    /\ run.remove_wip
    /\ run.i = 1
    /\ StampingPending(1)
    /\ <<"PUT", WipPath(DestOf(1)), "ok">> \in run.issued
    /\ <<"DELETE", WipPath(DestOf(1)), "ok">> \in run.issued
    /\ ~ObjAt(store, WipPath(DestOf(1))).present


-----------------------------------------------------------------------------
(* Claims on the attempts of upload_with_retries, under SpecUp *)

\* C24 (as stated): when the digest of the final object differs from the
\* local digest after the COPY, upload_with_retries raises out of the call
\* and does not retry: after the mismatch the call only runs its finally
\* clause and ends by raising; no further PUT of the temporary object and no
\* further COPY is issued
C24_MismatchRaisesNoRetry ==
    up.mismatch =>
        /\ up.pc \in {"finally", "done"}
        /\ up.pc = "done" => up.ret = "raised"

\* C25: the temporary object is deleted in every branch of every attempt:
\* when a later attempt is about to PUT, and whenever the call returns True
\* or False, no object is at the temporary key
C25_TmpDeleted ==
    AttemptsBegun =>
        /\ (up.pc = "put" /\ up.attempt > 0) => ~store[TmpPath(up.s3_path)].present
        /\ (up.pc = "done" /\ up.ret \in {"true", "false"}) =>
               ~store[TmpPath(up.s3_path)].present

\* the attempts exhausted, one of them having written the temporary object
\* and copied it, and the temporary key empty at the return
C25_Witness ==
    /\ AttemptsBegun
    /\ up.pc = "done" /\ up.ret = "false"
    /\ up.attempt = max_retries
    /\ up.mismatch
    /\ ~store[TmpPath(up.s3_path)].present

\* C26: upload_with_retries writes the destination only by the COPY from the
\* temporary object, in an attempt in which the digest read back from the
\* temporary object equalled the local digest; every other step of the call,
\* and so every attempt whose PUT failed or whose temporary digest differed,
\* leaves the destination as it was
C26_DestinationOnlyByVerifiedCopy ==
    [][store'[D1] # store[D1] =>
          /\ up.pc = "copy"
          /\ up.s3_md5 = up.local_md5
          /\ up'.copied
          /\ store'[D1].body = store[TmpPath(D1)].body
             \/ store'[D1].body[2] \in Corrupted(store[TmpPath(D1)].body[2])]_vars

\* an attempt whose temporary object came back with another digest: no COPY
\* was made and the destination is still absent
C26_Witness ==
    /\ AttemptsBegun
    /\ up.pc = "finally"
    /\ up.s3_md5 # UpIdle.s3_md5
    /\ up.s3_md5 # up.local_md5
    /\ ~up.copied
    /\ ~up.mismatch
    /\ ~store[up.s3_path].present


-----------------------------------------------------------------------------
(* Claims on the backup of update_metadata_if_needed, under SpecStamp *)

\* the key the last call copied the object to with its new metadata
StampDestination == IF tsp.output # NoOutput THEN tsp.output ELSE tsp.s3_file

\* the last call was made on an object: it got as far as its HEAD
StampCalled == tsp.pc = "returned" /\ tsp.s3_file # <<>>

\* C27: the COPY that replaces the metadata is issued only after the backup
\* was made and found to have the ETag of the original.  When the two ETags
\* differ the call ends with an error and the original object (and the
\* output key) is as it was; and whenever the destination was rewritten,
\* a backup that is still there has the body of the original
C27_BackupProvenFirst ==
    StampCalled =>
        /\ tsp.violation = "backup" =>
               /\ tsp.result = "raised"
               /\ store[tsp.s3_file] = tsp.before[tsp.s3_file]
               /\ store[StampDestination] = tsp.before[StampDestination]
               /\ store[BackupPath(tsp.s3_file)].present
               /\ Md5(store[BackupPath(tsp.s3_file)].body)
                    # Md5(tsp.before[tsp.s3_file].body)
        /\ store[StampDestination] # tsp.before[StampDestination] =>
               /\ tsp.violation # "backup"
               /\ tsp.result = "done" \/ store[BackupPath(tsp.s3_file)].present
               /\ store[BackupPath(tsp.s3_file)].present =>
                      Md5(store[BackupPath(tsp.s3_file)].body)
                        = Md5(tsp.before[tsp.s3_file].body)

\* a backup that came out different from the original: the call raised and
\* the object has the metadata it had
C27_Witness ==
    /\ StampCalled
    /\ tsp.violation = "backup"
    /\ tsp.result = "raised"
    /\ tsp.before[tsp.s3_file].ts = NoTs
    /\ store[tsp.s3_file].ts = NoTs
    /\ ~tsp.before[BackupPath(tsp.s3_file)].present
    /\ store[BackupPath(tsp.s3_file)].present

\* C28: if after the COPY that replaces the metadata the ETag of the object
\* differs from the backup's, update_metadata_if_needed raises and leaves the
\* backup, a copy of the original, in place; the backup is deleted only in
\* the branch of equal ETags, that is by a call that ends without error with
\* the body of the object unchanged
C28_BackupKeptOnMismatch ==
    StampCalled =>
        /\ tsp.violation = "updated" =>
               /\ tsp.result = "raised"
               /\ store[BackupPath(tsp.s3_file)].present
               /\ Md5(store[BackupPath(tsp.s3_file)].body)
                    = Md5(tsp.before[tsp.s3_file].body)
        /\ (/\ ~store[BackupPath(tsp.s3_file)].present
            /\ \/ tsp.before[BackupPath(tsp.s3_file)].present
               \/ store[StampDestination] # tsp.before[StampDestination]) =>
               /\ tsp.result = "done"
               /\ Md5(store[tsp.s3_file].body) = Md5(tsp.before[tsp.s3_file].body)

\* the object came out of the COPY with another body: the call raised and
\* the backup holds the original
C28_Witness ==
    /\ StampCalled
    /\ tsp.violation = "updated"
    /\ tsp.result = "raised"
    /\ Md5(store[tsp.s3_file].body) # Md5(tsp.before[tsp.s3_file].body)
    /\ ~tsp.before[BackupPath(tsp.s3_file)].present
    /\ store[BackupPath(tsp.s3_file)].present
    /\ store[BackupPath(tsp.s3_file)].body = tsp.before[tsp.s3_file].body


-----------------------------------------------------------------------------
(* Claims on the interrupts of update_metadata_if_needed, under            *)
(* SpecInterrupt                                                            *)

\* the positions between the end of the backup COPY and the end of the
\* DELETE of the backup
AfterBackupTaken ==
    {"verify_backup", "copy", "copy_call", "verify_updated", "delete_backup",
     "delete_call"}

\* C29 (as stated): SIGINT cannot take effect at any point between the end
\* of the backup COPY and the end of the COPY with the new metadata and the
\* DELETE of the backup, so an interrupt never ends the process with a
\* backup of this call left behind
C29_NoInterruptAfterBackup ==
    tsp.pc = "interrupted" =>
        /\ tsp.at \notin AfterBackupTaken
        /\ store[BackupPath(tsp.s3_file)] = tsp.before[BackupPath(tsp.s3_file)]


-----------------------------------------------------------------------------
(* Claims on --keep-timestamp-only, under SpecRun *)

\* element k was uploaded under --keep-timestamp-only and keep_timestamp_only
\* returned: the loop went on
Truncated(k) ==
    /\ run.keep_timestamp_only
    /\ run.outcome[k] = "Uploaded"
    /\ run.pair_idx > k

\* the run stamped the destination of element k with a file modification
\* date
StampedFromFile(k) ==
    /\ run.pc = "exit" /\ run.exit = 0
    /\ run.set_timestamp
    /\ run.outcome[k] = "Uploaded"
    /\ ~UsesRecordTimestamp(LocalOf(k), run.ts_key)
    /\ ObjAt(store, DestOf(k)).ts # NoTs

-----------------------------------------------------------------------------
(* Claims on the stamping of an upload run, under SpecRun *)

\* C31 (as stated): every freshness-metadata mutation of an upload run with
\* --set-timestamp goes through backup, verification, COPY and verification:
\* a stamping step that changes the destination either leaves its content as
\* it was or leaves a backup that holds the content as it was
C31_StampedThroughProtocol ==
    [][(run.pc = "set_timestamp" /\ run.i <= Len(run.uploaded_files)) =>
         LET s3_path == run.uploaded_files[run.i][2]
         IN store'[s3_path] # store[s3_path] =>
              \/ Md5(store'[s3_path].body) = Md5(store[s3_path].body)
              \/ /\ store'[BackupPath(s3_path)].present
                 /\ Md5(store'[BackupPath(s3_path)].body) = Md5(store[s3_path].body)]_vars

-----------------------------------------------------------------------------
(* Claims on the pair loop, under SpecLoop *)

\* the run is in its pair loop
InPairLoop == run.pc \in {"pair", "upload"}

\* every element before the current one has its outcome, every element
\* from the current one on has none, and a log that is examined has a
\* content file whose outcome is known
LoopInOrder ==
    InPairLoop =>
        /\ \A k \in RunPairs : k < run.pair_idx => run.outcome[k] # "Pending"
        /\ \A k \in RunPairs : k >= run.pair_idx => run.outcome[k] = "Pending"
        /\ HasCorrespondingContent(FilePairs(run.files), run.pair_idx) =>
               run.outcome[run.pair_idx - 1] \in RunOutcomes \ {"Pending"}

\* a step of the loop never goes back, comes back to the loop only with a
\* larger index, gives an outcome only to the current element (and to the
\* log skipped with it), and never changes an outcome once given
LoopStep ==
    InPairLoop =>
        /\ run'.pair_idx >= run.pair_idx
        /\ run'.pc \in {"pair", "remove_wip", "set_timestamp"} =>
               run'.pair_idx > run.pair_idx
        /\ \A k \in RunPairs :
               /\ run.outcome[k] # "Pending" => run'.outcome[k] = run.outcome[k]
               /\ run'.outcome[k] # run.outcome[k] =>
                      \/ k = run.pair_idx
                      \/ k = run.pair_idx + 1 /\ run'.outcome[k] = "SkipWithContent"

\* C32: the pairs are examined in input order, each at most once, a content
\* file has its outcome before its log is examined, and the pair loop ends
C32_InOrderOnceAndEnds ==
    /\ []LoopInOrder
    /\ [][LoopStep]_vars
    /\ (InPairLoop ~> ~InPairLoop)

\* a content file uploaded and then its log examined and uploaded
C32_Witness ==
    /\ run.pc = "exit" /\ run.exit = 0
    /\ run.files = <<L1, D1, L1log, D1log>>
    /\ run.outcome = <<"Uploaded", "Uploaded">>
    /\ run.uploaded_files = <<<<L1, D1>>, <<L1log, D1log>>>>

-----------------------------------------------------------------------------
(* Claims on what follows the transfer, under SpecRun *)

\* element k was skipped, or its upload failed
NotUploaded(k) ==
    run.outcome[k] \in {"SkipAlreadyExists", "SkipStampFile", "SkipUpToDate",
                        "SkipWithContent", "Failed"}

\* the run is past its pair loop: the cleanup of the markers, the stamping
AfterLoop == run.pc \in {"remove_wip", "set_timestamp"}

\* a step leaves the local file of a skipped or failed element as it is, a
\* step after the loop leaves its destination and its marker as they are,
\* and without any uploaded element a step after the loop leaves the store
\* as it is
ActsOnUploadedOnly ==
    run.pc \notin {"off", "exit"} =>
        /\ \A k \in RunPairs :
               NotUploaded(k) =>
                   /\ localfs'[LocalOf(k)] = localfs[LocalOf(k)]
                   /\ AfterLoop =>
                          /\ ObjAt(store', DestOf(k)) = ObjAt(store, DestOf(k))
                          /\ ObjAt(store', WipPath(DestOf(k)))
                               = ObjAt(store, WipPath(DestOf(k)))
        /\ (AfterLoop /\ \A k \in RunPairs : run.outcome[k] # "Uploaded") =>
               store' = store

\* C33: a skipped or failed element is never truncated, never stamped and
\* never has its marker removed by the run, and a run without an uploaded
\* element changes no metadata
C33_ActsOnUploadedOnly == [][ActsOnUploadedOnly]_vars

\* a content file uploaded, truncated and stamped while its log, whose
\* upload failed, is left as it was, locally and in the store
C33_Witness ==
    /\ run.pc = "exit" /\ run.exit = 0
    /\ run.files = <<L1, D1, L1log, D1log>>
    /\ run.set_timestamp /\ run.keep_timestamp_only
    /\ run.outcome = <<"Uploaded", "Failed">>
    /\ Size(localfs[L1].bytes) = 0
    /\ store[D1].ts # NoTs
    /\ localfs[L1log] = run.files_at_start[L1log]
    /\ Size(localfs[L1log].bytes) > 0

-----------------------------------------------------------------------------
(* Claims on the HEAD of the marker that fails, under SpecCheck *)

\* the check of p has ended after a HEAD of the marker that failed with an
\* error other than not-found
HeadWipFailed(p) == ck[p].pc = "exit" /\ "head_wip" \in ck[p].raised

\* the check of p has ended after a HEAD of the marker that found nothing
HeadWipNotFound(p) ==
    /\ ck[p].pc = "exit"
    /\ ck[p].wip_seen = "absent"
    /\ ck[p].raised \cap {"head_dest", "head_wip"} = {}

\* the file list lets the markers be created: it is not empty, it is made
\* of whole pairs, and the destinations of its content files are well formed
CanCreateMarkers(files) ==
    /\ files # <<>>
    /\ Len(files) % 2 = 0
    /\ \A k \in 1..(Len(files) \div 2) :
           (EndsWith(files[2 * k - 1], ".txt.gz") \/ EndsWith(files[2 * k - 1], ".jsonl.bz2"))
               => ParseOk(Append(files[2 * k], ".wip"))

\* the exit code and the store calls of a check that saw no marker
AsOnNotFound(p) ==
    /\ ck[p].exit = IF ck[p].create_wip /\ CanCreateMarkers(ck[p].files) THEN 0 ELSE 1
    /\ \A c \in ck[p].issued : c[1] = "PUT"
    /\ (ck[p].issued # {}) => ck[p].create_wip

\* C34 (as stated): after a HEAD of the marker that failed with an error
\* other than not-found the check exits 0 with --create-wip and 1 without,
\* and never 2
C34_FailOpenExit0 ==
    \A p \in Procs :
        HeadWipFailed(p) => ck[p].exit = IF ck[p].create_wip THEN 0 ELSE 1

\* C34: a HEAD of the marker that failed with an error other than not-found
\* is followed by what follows a not-found: no DELETE, never exit 2, the
\* marker PUTs and exit 0 with --create-wip and a file list that lets the
\* markers be created, exit 1 otherwise
C34_FailOpen ==
    \A p \in Procs :
        /\ HeadWipFailed(p) => AsOnNotFound(p)
        /\ HeadWipNotFound(p) => AsOnNotFound(p)

\* the HEAD failed while a live marker of another invocation was there, and
\* the check went on to write its own marker and exit 0
C34_Witness ==
    /\ HeadWipFailed("p1")
    /\ ck["p1"].wip_seen = "live"
    /\ ck["p1"].exit = 0
    /\ <<"PUT", WipPath(D1), "ok">> \in ck["p1"].issued

-----------------------------------------------------------------------------
(* s3_set_timestamp.py: get_last_timestamp on its own, on any record       *)
(* stream.  A line is invalid JSON, valid JSON that is not an object, or   *)
(* an object with its fields "ts" and "cdt"; a field is missing, a number, *)
(* a string in no known format, or a timestamp string in one of the two    *)
(* known formats.                                                          *)

MaxLines == 2

\* the values of a field of a record
NoValue == [kind |-> "none", fmt |-> "", n |-> 0]

NumberValue == [kind |-> "number", fmt |-> "", n |-> 5]

\* a string: "%Y-%m-%dT%H:%M:%SZ" (iso), "%Y-%m-%d %H:%M:%S" (cdt), or
\* neither (bad)
StringValue(fmt, n) == [kind |-> "string", fmt |-> fmt, n |-> n]

FieldValues ==
    {NoValue, NumberValue, StringValue("bad", 0), StringValue("iso", 1),
     StringValue("iso", 2)}

CdtValues == {NoValue, StringValue("cdt", 3)}

InvalidJson == [json |-> "invalid", ts |-> NoValue, cdt |-> NoValue]

NotAnObject == [json |-> "scalar", ts |-> NoValue, cdt |-> NoValue]

JsonObject(ts, cdt) == [json |-> "object", ts |-> ts, cdt |-> cdt]

RecordLines ==
    {InvalidJson, NotAnObject}
    \cup {JsonObject(ts, cdt) : ts \in FieldValues, cdt \in CdtValues}

RecordStreams == UNION {[1..n -> RecordLines] : n \in 0..MaxLines}

\* known_formats.get(ts_key)
KnownFormat(ts_key) ==
    CASE ts_key = "ts" -> "iso" [] ts_key = "cdt" -> "cdt"
      [] ts_key = "timestamp" -> "iso" [] OTHER -> ""

\* record.get(key)
RecordGet(record, key) ==
    CASE key = "ts" -> record.ts [] key = "cdt" -> record.cdt [] OTHER -> NoValue

\* record.get(ts_key) or record.get("cdt") or record.get("timestamp")
TsStr(record, ts_key) ==
    IF RecordGet(record, ts_key) # NoValue THEN RecordGet(record, ts_key)
    ELSE IF RecordGet(record, "cdt") # NoValue THEN RecordGet(record, "cdt")
    ELSE RecordGet(record, "timestamp")

\* parsed.strftime("%Y-%m-%dT%H:%M:%SZ")
IsoString(parsed) == StringValue("iso", parsed)

GltReturned(value, skipped_records) ==
    [status |-> "returned", value |-> value, skipped_records |-> skipped_records]

\* raise ValueError(f"Error processing timestamps: {e}")
GltRaised(skipped_records) ==
    [status |-> "raised", value |-> NoValue, skipped_records |-> skipped_records]

\* for line in f: json.loads of invalid JSON raises JSONDecodeError, the
\* for-else of the formats raises ValueError and strptime of a number
\* raises TypeError: the three are caught, the line is counted and skipped.
\* record.get on a value that is not an object raises AttributeError, which
\* the except clause of the line does not catch and the outer one makes a
\* ValueError.  After the last line: the latest timestamp, or the
\* modification time of the file.
RECURSIVE ScanLines(_, _, _, _, _, _, _)
ScanLines(lines, i, ts_key, all_lines, latest_ts, skipped_records, file_mtime) ==
    IF i > Len(lines)
    THEN IF latest_ts = NoTs
         THEN GltReturned(IsoString(file_mtime), skipped_records)
         ELSE GltReturned(IsoString(latest_ts), skipped_records)
    ELSE LET line == lines[i]
             ts_str == TsStr(line, ts_key)
             Skip == ScanLines(lines, i + 1, ts_key, all_lines, latest_ts,
                               skipped_records + 1, file_mtime)
             Pass == ScanLines(lines, i + 1, ts_key, all_lines, latest_ts,
                               skipped_records, file_mtime)
         IN CASE line.json = "invalid" -> Skip
              [] line.json = "scalar" -> GltRaised(skipped_records)
              [] OTHER ->
                   CASE ts_str = NoValue -> Pass
                     [] ts_str.kind = "number" -> Skip
                     [] ts_str.fmt = "bad" -> Skip
                     [] OTHER ->
                          IF ~all_lines
                          THEN GltReturned(IsoString(ts_str.n), skipped_records)
                          ELSE ScanLines(lines, i + 1, ts_key, all_lines,
                                         IF latest_ts = NoTs \/ ts_str.n > latest_ts
                                         THEN ts_str.n ELSE latest_ts,
                                         skipped_records, file_mtime)

\* get_last_timestamp(fileobj, ts_key, all_lines)
GetLastTimestamp(lines, ts_key, all_lines, file_mtime) ==
    IF KnownFormat(ts_key) = "" THEN GltRaised(0)
    ELSE ScanLines(lines, 1, ts_key, all_lines, NoTs, 0, file_mtime)

\* a processor about to read a record stream
InitLines ==
    /\ now = RunNow
    /\ store = EmptyStore
    /\ localfs = NoFiles
    /\ up = UpIdle
    /\ ck = [p \in Procs |-> CkIdle]
    /\ run = RunOff
    /\ \E lines \in RecordStreams, ts_key \in {"ts", "cdt", "date"},
          all_lines \in BOOLEAN, file_mtime \in {0, 4} :
         tsp = [pc |-> "lines", calls |-> 0, lines |-> lines, ts_key |-> ts_key,
                all_lines |-> all_lines, file_mtime |-> file_mtime,
                result |-> GltRaised(0)]

GetLastTimestampCall ==
    /\ tsp.pc = "lines"
    /\ tsp' = [tsp EXCEPT !.pc = "read", !.calls = 1,
                 !.result = GetLastTimestamp(tsp.lines, tsp.ts_key, tsp.all_lines,
                                             tsp.file_mtime)]
    /\ UNCHANGED <<store, now, localfs, up, ck, run>>

NextLines == GetLastTimestampCall

SpecLines == InitLines /\ [][NextLines]_vars

-----------------------------------------------------------------------------
(* Claims on get_last_timestamp, under SpecLines *)

\* the timestamps of the lines that hold a valid one, in the order of the
\* stream, as get_last_timestamp reads the fields
ValidTimestamps(lines, ts_key) ==
    LET Valid(i) ==
            /\ lines[i].json = "object"
            /\ TsStr(lines[i], ts_key).kind = "string"
            /\ TsStr(lines[i], ts_key).fmt \in {"iso", "cdt"}
    IN [i \in {j \in 1..Len(lines) : Valid(j)} |-> TsStr(lines[i], ts_key).n]

\* the first valid timestamp, or the largest, or the modification time of
\* the file when there is none
Representative(lines, ts_key, all_lines, file_mtime) ==
    LET valid == ValidTimestamps(lines, ts_key)
        at == DOMAIN valid
    IN IF at = {} THEN file_mtime
       ELSE IF all_lines
       THEN CHOOSE n \in {valid[i] : i \in at} : \A i \in at : valid[i] <= n
       ELSE valid[CHOOSE i \in at : \A j \in at : i <= j]

\* C35 (as stated): with a known --ts-key, whatever lines the stream holds,
\* get_last_timestamp does not raise and returns the first or the largest
\* valid timestamp, or the modification time of the file when no line holds
\* a valid one
C35_MalformedNeverFatal ==
    (tsp.pc = "read" /\ KnownFormat(tsp.ts_key) # "") =>
        /\ tsp.result.status = "returned"
        /\ tsp.result.value
             = IsoString(Representative(tsp.lines, tsp.ts_key, tsp.all_lines,
                                        tsp.file_mtime))

-----------------------------------------------------------------------------
(* Claims on the run that is repeated, under SpecTwice *)

\* the second run of a command line with --upload-if-newer --set-timestamp
\* has ended without an error; its first run uploaded and stamped the
\* content file of element k, the local file is as it was, and the second
\* run read the metadata of the destination
RerunOfStamped(k) ==
    /\ run.run_no = 2
    /\ run.pc = "exit" /\ run.exit = 0
    /\ run.upload_if_newer /\ run.set_timestamp
    /\ ~run.force_overwrite /\ ~run.keep_timestamp_only
    /\ ~IsPairedLog(k)
    /\ run.first_outcome[k] = "Uploaded"
    /\ ObjAt(run.first_store, DestOf(k)).ts # NoTs
    /\ localfs[LocalOf(k)] = run.files_at_start[LocalOf(k)]
    /\ <<"HEAD", DestOf(k), "metadata">> \in run.issued

\* C36 (as stated): after a run with --upload-if-newer --set-timestamp has
\* uploaded and stamped a content file, the same run once more, with the
\* local file as it was, skips the file as up to date and transfers
\* nothing, whether the stamp came from a record or from the file
C36_RerunSkipsUpToDate ==
    \A k \in RunPairs :
        RerunOfStamped(k) =>
            /\ run.outcome[k] = "SkipUpToDate"
            /\ ObjAt(store, DestOf(k)) = ObjAt(run.first_store, DestOf(k))

-----------------------------------------------------------------------------
(* Claims on the reclamation of a stale marker, under SpecCheck *)

\* C37 (as stated): the DELETE of the WIP check never removes a marker whose
\* age is at most the maximum age at the moment of the DELETE, under any
\* interleaving of two invocations
C37_DeletesOnlyStale ==
    [][\A p \in Procs :
         (/\ ck[p].pc = "delete_stale"
          /\ ck'[p].pc # "delete_stale"
          /\ store[WipPath(ck[p].s3_file_exists)].present
          /\ ~store'[WipPath(ck[p].s3_file_exists)].present)
         => now - store[WipPath(ck[p].s3_file_exists)].mtime > ck[p].wip_max_age]_vars

====
